---------------------------- MODULE Spec2Model ----------------------------
(***************************************************************************)
(* A model of the coldsquare class-file parser (crates/file-parser) and of *)
(* its typed constant-pool references (crates/file-parser/src/model).      *)
(*                                                                         *)
(* Conventions.                                                            *)
(*  - A byte is a natural in 0..255, a u2 a natural in 0..65535.  A u4 is  *)
(*    kept as its two 16-bit halves [hi, lo] (the word hi * 2^16 + lo),    *)
(*    exactly the two u2 reads Data::u4 combines; the model's integers are *)
(*    32-bit signed and cannot hold 0xCAFEBABE.                            *)
(*  - A Rust Result is a record [t, v, e, d]: t is "Ok", "Err" or "Panic"  *)
(*    (the thread unwinds), v the value, e the error, d the cursor after   *)
(*    the call.                                                            *)
(*  - A usize index that wrapped below zero is kept as the negative number *)
(*    i - 2^64 it wrapped from; it exceeds the length of every slice.      *)
(***************************************************************************)
EXTENDS Integers, Sequences, FiniteSets, TLC

VARIABLES
    overflow_checks, \* build profile: TRUE = arithmetic overflow panics (debug)
    data,            \* the cursor Data { data, pointer }
    pc,              \* position of the running entry point
    len,             \* parse_vec's len for the constant pool
    class,           \* the ClassFile under construction
    result,          \* what parse_class_file returned
    ret,             \* what the last call on the cursor or on a pool reference returned
    stack            \* the OperandStack { arr, sp } of crates/machine

vars == <<overflow_checks, data, pc, len, class, result, ret, stack>>

---------------------------------------------------------------------------
(* Bounds of the model *)

\* longest byte slice handed to a bare cursor
MaxDataLen == 5
\* most entries in a generated constant pool
MaxPoolEntries == 2
\* deepest nesting of Code attributes in a generated class body
MaxCodeDepth == 2

---------------------------------------------------------------------------
(* Machine arithmetic *)

RECURSIVE Pow2(_)
Pow2(n) == IF n = 0 THEN 1 ELSE 2 * Pow2(n - 1)

\* x << n on a w-bit unsigned integer
Shl(x, n, w) == (x * Pow2(n)) % Pow2(w)

RECURSIVE BitOr(_, _)
BitOr(a, b) ==
    IF a = 0 THEN b
    ELSE IF b = 0 THEN a
    ELSE (IF a % 2 = 1 \/ b % 2 = 1 THEN 1 ELSE 0) + 2 * BitOr(a \div 2, b \div 2)

\* slice::get: None (here <<>>) outside the slice, Some(item) (here <<item>>) inside
SliceGet(s, i) == IF i >= 0 /\ i < Len(s) THEN <<s[i + 1]>> ELSE <<>>

NoErr == [msg |-> "", arg |-> 0]
ParseErr(msg) == [msg |-> msg, arg |-> 0]
ParseErrWith(msg, arg) == [msg |-> msg, arg |-> arg]

Ok(v, d) == [t |-> "Ok", v |-> v, e |-> NoErr, d |-> d]
Err(e, d) == [t |-> "Err", v |-> 0, e |-> e, d |-> d]
Panic(msg, d) == [t |-> "Panic", v |-> 0, e |-> ParseErr(msg), d |-> d]

---------------------------------------------------------------------------
(* Sequencing of fallible calls: the ? operator *)

\* Ok(G(value)) of a successful call, the failure itself otherwise
Map(r, G(_)) == IF r.t = "Ok" THEN Ok(G(r.v), r.d) ELSE r

---------------------------------------------------------------------------
(* The byte cursor: struct Data and its reads *)

DataNew(bytes) == [data |-> bytes, pointer |-> 0]

\* a u1 that leaves the pointer where it is
U1Stuck(d) ==
    LET item == SliceGet(d.data, d.pointer)
    IN  IF item = <<>> THEN Err(ParseErr("No u1 left"), d) ELSE Ok(item[1], d)

U1(d) ==
    LET item == SliceGet(d.data, d.pointer)
        next == [d EXCEPT !.pointer = @ + 1]
    IN  IF item = <<>> THEN Err(ParseErr("No u1 left"), next) ELSE Ok(item[1], next)

\* a second read of u2 that puts the bytes together low byte first
U2SecondLittleEndian(a) ==
    IF a.t # "Ok" THEN a
    ELSE Map(U1(a.d), LAMBDA b : BitOr(Shl(b, 8, 16), a.v))

\* the second read of u2, a the result of the first
U2Second(a) ==
    IF a.t # "Ok" THEN a
    ELSE Map(U1(a.d), LAMBDA b : BitOr(Shl(a.v, 8, 16), b))

\* ((self.u1()? as u2) << 8) | self.u1()? as u2
U2(d) == U2Second(U1(d))

\* (hi as u4) << 16 | lo, held as its halves
U4Of(hi, lo) == [hi |-> hi, lo |-> lo]

\* the second read of u4, a the result of the first
U4Second(a) ==
    IF a.t # "Ok" THEN a
    ELSE Map(U2(a.d), LAMBDA b : U4Of(a.v, b))

\* ((self.u2()? as u4) << 16) | self.u2()? as u4
U4(d) == U4Second(U2(d))

\* self.pointer - k on usize: panics under overflow checks, wraps otherwise
PointerSub(d, k) ==
    IF d.pointer - k < 0 /\ overflow_checks
    THEN Panic("attempt to subtract with overflow", d)
    ELSE Ok(d.pointer - k, d)

\* self.data.get(self.pointer - k).ok_or(ParseErr(msg))
\* self.data.get(i).ok_or(ParseErr(msg)), i the result of the subtraction
DataGet(d, i, msg) ==
    IF i.t # "Ok" THEN i
    ELSE IF SliceGet(d.data, i.v) = <<>> THEN Err(ParseErr(msg), d)
    ELSE Ok(SliceGet(d.data, i.v)[1], d)

LastByte(d, k, msg) == DataGet(d, PointerSub(d, k), msg)

\* a last_u1 that looks at the pointer, not before it
LastU1AtPointer(d) == LastByte(d, 0, "Last u1 not found")

\* Data::last_u1
LastU1(d) == LastByte(d, 1, "Last u1 not found")

\* ((last2u1 as u2) << 8) | self.last_u1()? as u2
LastU2Low(d, last2u1) ==
    IF last2u1.t # "Ok" THEN last2u1
    ELSE Map(LastU1(d), LAMBDA b : BitOr(Shl(last2u1.v, 8, 16), b))

LastU2(d) == LastU2Low(d, LastByte(d, 2, "Last u2 not found"))

\* ((last3u1 as u4) << 24) | ((last2u1 as u4) << 16) | self.last_u2()? as u4
LastU4Low(d, last2u1, last3u1) ==
    IF last3u1.t # "Ok" THEN last3u1
    ELSE Map(LastU2(d), LAMBDA lo :
           U4Of(BitOr(Shl(last3u1.v, 8, 16), last2u1.v), lo))

LastU4Third(d, last2u1) ==
    IF last2u1.t # "Ok" THEN last2u1
    ELSE LastU4Low(d, last2u1,
                   LastByte(d, 4, "Last 3 u1 in last u4 not found"))

LastU4(d) == LastU4Third(d, LastByte(d, 3, "Last 2 u1 in last u4 not found"))

\* u4 as usize.  Values of 2^31 and above are held as 2^31 - 1: every slice of
\* the model is shorter, so a loop of that many reads fails at the same read.
U4AsUsize(x) == IF x.hi >= 32768 THEN 2147483647 ELSE x.hi * 65536 + x.lo

---------------------------------------------------------------------------
\* Data::cp: a pool reference is the u2 read from the input; its tag T exists
\* only in the type of the field it is stored in
Cp(d) == U2(d)

---------------------------------------------------------------------------
(* Strings: a Rust String is the sequence of its UTF-8 bytes *)

AsciiCode ==
    [A |-> 65, B |-> 66, C |-> 67, D |-> 68, E |-> 69, F |-> 70, G |-> 71,
     H |-> 72, I |-> 73, J |-> 74, K |-> 75, L |-> 76, M |-> 77, N |-> 78,
     O |-> 79, P |-> 80, Q |-> 81, R |-> 82, S |-> 83, T |-> 84, U |-> 85,
     V |-> 86, W |-> 87, X |-> 88, Y |-> 89, Z |-> 90,
     a |-> 97, b |-> 98, c |-> 99, d |-> 100, e |-> 101, f |-> 102, g |-> 103,
     h |-> 104, i |-> 105, j |-> 106, k |-> 107, l |-> 108, m |-> 109,
     n |-> 110, o |-> 111, p |-> 112, q |-> 113, r |-> 114, s |-> 115,
     t |-> 116, u |-> 117, v |-> 118, w |-> 119, x |-> 120, y |-> 121,
     z |-> 122]

Str(letters) == [i \in 1..Len(letters) |-> AsciiCode[letters[i]]]

IsCont(b) == b >= 128 /\ b <= 191

\* String::from_utf8's validation: the length of the well-formed sequence
\* that starts at bytes[i], 0 when there is none
Utf8SeqLen(bytes, i) ==
    LET b == bytes[i]
        n == Len(bytes)
        c(k) == i + k <= n /\ IsCont(bytes[i + k])
        in(k, lo, hi) == i + k <= n /\ bytes[i + k] >= lo /\ bytes[i + k] <= hi
    IN  IF b < 128 THEN 1
        ELSE IF b >= 194 /\ b <= 223 THEN (IF c(1) THEN 2 ELSE 0)
        ELSE IF b = 224 THEN (IF in(1, 160, 191) /\ c(2) THEN 3 ELSE 0)
        ELSE IF b = 237 THEN (IF in(1, 128, 159) /\ c(2) THEN 3 ELSE 0)
        ELSE IF b >= 225 /\ b <= 239 THEN (IF c(1) /\ c(2) THEN 3 ELSE 0)
        ELSE IF b = 240 THEN (IF in(1, 144, 191) /\ c(2) /\ c(3) THEN 4 ELSE 0)
        ELSE IF b >= 241 /\ b <= 243 THEN (IF c(1) /\ c(2) /\ c(3) THEN 4 ELSE 0)
        ELSE IF b = 244 THEN (IF in(1, 128, 143) /\ c(2) /\ c(3) THEN 4 ELSE 0)
        ELSE 0

RECURSIVE ValidUtf8From(_, _)
ValidUtf8From(bytes, i) ==
    IF i > Len(bytes) THEN TRUE
    ELSE LET k == Utf8SeqLen(bytes, i)
         IN  k # 0 /\ ValidUtf8From(bytes, i + k)

StringFromUtf8(bytes, d) ==
    IF ValidUtf8From(bytes, 1) THEN Ok(bytes, d)
    ELSE Err(ParseErr("Invalid utf8 in CpInfo::Utf8"), d)


---------------------------------------------------------------------------
(* impl Parse for ...: the recursive-descent decoders *)

RECURSIVE Parse(_, _), ParseVecFrom(_, _, _, _), ParseSeqFrom(_, _, _, _)
RECURSIVE ParseVecPush(_, _, _, _), ParseSeqPush(_, _, _, _)

\* parse_vec: len items of one kind, the first failure returned
ParseVec(kind, n, d) == ParseVecFrom(kind, n, d, <<>>)

ParseVecFrom(kind, n, d, acc) ==
    IF n = 0 THEN Ok(acc, d) ELSE ParseVecPush(kind, n, acc, Parse(kind, d))

\* vec.push(T::parse(data)?), r the result of the parse
ParseVecPush(kind, n, acc, r) ==
    IF r.t # "Ok" THEN r ELSE ParseVecFrom(kind, n - 1, r.d, Append(acc, r.v))

\* the length a count read as count_kind stands for
CountOf(count_kind, v) ==
    IF count_kind \in {"u4", "last_u4"} THEN U4AsUsize(v) ELSE v

\* parse_vec(data.u2()?, data), parse_vec(data.last_u2()?, data) and the like
ParseCountedOf(count_kind, kind, n) ==
    IF n.t # "Ok" THEN n ELSE ParseVec(kind, CountOf(count_kind, n.v), n.d)

ParseCounted(count_kind, kind, d) ==
    ParseCountedOf(count_kind, kind, Parse(count_kind, d))

\* a field of a struct literal: one value, or a vector behind its count
One(kind) == <<kind>>
Vec(count_kind, kind) == <<count_kind, kind>>

ParseField(field, d) ==
    IF Len(field) = 1 THEN Parse(field[1], d)
    ELSE ParseCounted(field[1], field[2], d)

\* the fields of a struct literal, read in the order they are written
ParseSeq(fields, d) == ParseSeqFrom(fields, 1, d, <<>>)

ParseSeqFrom(fields, i, d, acc) ==
    IF i > Len(fields) THEN Ok(acc, d)
    ELSE ParseSeqPush(fields, i, acc, ParseField(fields[i], d))

\* the next field after the one whose read gave r
ParseSeqPush(fields, i, acc, r) ==
    IF r.t # "Ok" THEN r ELSE ParseSeqFrom(fields, i + 1, r.d, Append(acc, r.v))

CpInfoOf(tag, inner) == [tag |-> tag, inner |-> inner]

CpInfoRef1(tag, kind, d) ==
    Map(Cp(d), LAMBDA x : CpInfoOf(tag, [kind |-> kind, index |-> x]))

CpInfoRef2(tag, kind, d) ==
    Map(ParseSeq(<<One("FromPool"), One("FromPool")>>, d),
        LAMBDA x : CpInfoOf(tag, [kind |-> kind, class_index |-> x[1],
                                  name_and_type_index |-> x[2]]))

CpInfoBytes4(tag, kind, d) ==
    Map(U4(d), LAMBDA x : CpInfoOf(tag, [kind |-> kind, bytes |-> x]))

CpInfoBytes8(tag, kind, d) ==
    Map(ParseSeq(<<One("u4"), One("u4")>>, d),
        LAMBDA x : CpInfoOf(tag, [kind |-> kind, high_bytes |-> x[1],
                                  low_bytes |-> x[2]]))

\* String::from_utf8(parse_vec(data.u2()?, data)?) of the bytes b
Utf8Of(tag, b) ==
    IF b.t # "Ok" THEN b
    ELSE Map(StringFromUtf8(b.v, b.d),
             LAMBDA x : CpInfoOf(tag, [kind |-> "Utf8", bytes |-> x]))

\* a MethodHandle whose reference is a Fieldref whatever the kind byte
MethodHandleOfAnyKind(tag, h) ==
    IF h.t # "Ok" THEN h
    ELSE Map(Cp(h.d), LAMBDA x :
           CpInfoOf(tag, [kind |-> "MethodHandle", reference_kind |-> h.v[1],
              reference_index |-> [target |-> "Fieldref", index |-> x]]))

\* the reference of a MethodHandle whose kind bytes h were read
MethodHandleOf(tag, h) ==
    IF h.t # "Ok" THEN h
    ELSE IF h.v[2] >= 1 /\ h.v[2] <= 9
    THEN Map(Cp(h.d), LAMBDA x :
           CpInfoOf(tag, [kind |-> "MethodHandle", reference_kind |-> h.v[1],
              reference_index |->
                [target |-> IF h.v[2] <= 4 THEN "Fieldref"
                            ELSE IF h.v[2] <= 8 THEN "MethodRef"
                            ELSE "InterfaceMethodref",
                 index |-> x]]))
    ELSE Err(ParseErrWith("Invalid MethodHandle reference kind", h.v[2]), h.d)

\* reference_kind: data.u1()?, reference_index: match data.last_u1()? { .. }
MethodHandleParse(tag, d) ==
    MethodHandleOf(tag, ParseSeq(<<One("u1"), One("last_u1")>>, d))

\* a match on the tag with one arm for every value
CpInfoOfTagAcceptingAnyTag(t) ==
    IF t.t # "Ok" THEN t ELSE CpInfoRef1(t.v, "Class", t.d)

\* match tag { .. } of CpInfo::parse, t the result of let tag = data.u1()?
CpInfoOfTag(t) ==
    IF t.t # "Ok" THEN t
    ELSE LET tag == t.v
         IN  CASE tag = 7 -> CpInfoRef1(tag, "Class", t.d)
               [] tag = 9 -> CpInfoRef2(tag, "Fieldref", t.d)
               [] tag = 10 -> CpInfoRef2(tag, "MethodRef", t.d)
               [] tag = 11 -> CpInfoRef2(tag, "InterfaceMethodref", t.d)
               [] tag = 8 -> CpInfoRef1(tag, "String", t.d)
               [] tag = 3 -> CpInfoBytes4(tag, "Integer", t.d)
               [] tag = 4 -> CpInfoBytes4(tag, "Float", t.d)
               [] tag = 5 -> CpInfoBytes8(tag, "Long", t.d)
               [] tag = 6 -> CpInfoBytes8(tag, "Double", t.d)
               [] tag = 12 ->
                    Map(ParseSeq(<<One("FromPool"), One("FromPool")>>, t.d),
                        LAMBDA x : CpInfoOf(tag, [kind |-> "NameAndType",
                                     name_index |-> x[1], descriptor_index |-> x[2]]))
               [] tag = 1 -> Utf8Of(tag, ParseCounted("u2", "u1", t.d))
               [] tag = 15 -> MethodHandleParse(tag, t.d)
               [] tag = 16 -> CpInfoRef1(tag, "MethodType", t.d)
               [] tag = 18 ->
                    Map(ParseSeq(<<One("u2"), One("FromPool")>>, t.d),
                        LAMBDA x : CpInfoOf(tag, [kind |-> "InvokeDynamic",
                                     bootstrap_method_attr_index |-> x[1],
                                     name_and_type_index |-> x[2]]))
               [] OTHER -> Err(ParseErrWith("Invalid CPInfo tag", tag), t.d)

CpInfoParse(d) == CpInfoOfTag(U1(d))

\* FieldInfo and MethodInfo have the same layout
MemberInfoParse(d) ==
    Map(ParseSeq(<<One("u2"), One("FromPool"), One("FromPool"),
                   Vec("u2", "AttributeInfo")>>, d), LAMBDA x :
      [access_flags |-> x[1], name_index |-> x[2],
       descriptor_index |-> x[3], attributes |-> x[4]])

AttributeOf(name_index, length, inner) ==
    [attribute_name_index |-> name_index, attribute_length |-> length,
     inner |-> inner]

\* a parse that takes the rest of the input as the content and leaves the
\* cursor at its start
AttributeInfoParseUnframed(d) ==
    Map(ParseSeq(<<One("FromPool"), One("u4")>>, d),
        LAMBDA x : AttributeOf(x[1], x[2],
                     [kind |-> "Unknown",
                      attribute_content |->
                        SubSeq(d.data, d.pointer + 7, Len(d.data))]))

\* the content is as long as the four bytes before the cursor say
AttributeInfoParse(d) ==
    Map(ParseSeq(<<One("FromPool"), One("u4"), Vec("last_u4", "u1")>>, d),
        LAMBDA x : AttributeOf(x[1], x[2],
                     [kind |-> "Unknown", attribute_content |-> x[3]]))

AttributeCodeExceptionParse(d) ==
    Map(ParseSeq(<<One("last_u2"), One("last_u2"), One("last_u2"),
                   One("last_u2")>>, d), LAMBDA x :
      [start_pc |-> x[1], end_pc |-> x[2], handler_pc |-> x[3],
       catch_type |-> x[4]])

\* match tag { .. } of VerificationTypeInfo::parse
VerificationTypeInfoOfTag(t) ==
    IF t.t # "Ok" THEN t
    ELSE LET tag == t.v
             plain(kind) == Ok([kind |-> kind, tag |-> tag], t.d)
         IN  CASE tag = 0 -> plain("Top")
               [] tag = 1 -> plain("Integer")
               [] tag = 2 -> plain("Float")
               [] tag = 4 -> plain("Long")
               [] tag = 3 -> plain("Double")
               [] tag = 5 -> plain("Null")
               [] tag = 6 -> plain("UninitializedThis")
               [] tag = 7 -> Map(U2(t.d), LAMBDA x :
                               [kind |-> "Object", tag |-> tag, cpool_index |-> x])
               [] tag = 8 -> Map(U2(t.d), LAMBDA x :
                               [kind |-> "Uninitialized", tag |-> tag, offset |-> x])
               [] OTHER ->
                    Err(ParseErrWith("Invalid VerificationTypeInfo tag", tag), t.d)

VerificationTypeInfoParse(d) == VerificationTypeInfoOfTag(U1(d))

\* match frame_type { .. } of StackMapFrame::parse; 247 is taken by the arm
\* before 246..=250
StackMapFrameOfType(t) ==
    IF t.t # "Ok" THEN t
    ELSE LET frame_type == t.v
         IN  CASE frame_type <= 63 ->
                    Ok([kind |-> "SameFrame", frame_type |-> frame_type], t.d)
               [] frame_type >= 64 /\ frame_type <= 127 ->
                    Map(Parse("VerificationTypeInfo", t.d), LAMBDA x :
                      [kind |-> "SameLocals1StackItemFrame",
                       frame_type |-> frame_type, stack |-> x])
               [] frame_type = 247 ->
                    Map(ParseSeq(<<One("u2"), One("VerificationTypeInfo")>>, t.d),
                        LAMBDA x :
                          [kind |-> "SameLocals1StackItemFrameExtended",
                           frame_type |-> frame_type, offset_delta |-> x[1],
                           stack |-> x[2]])
               [] frame_type = 246 \/ (frame_type >= 248 /\ frame_type <= 250) ->
                    Map(U2(t.d), LAMBDA x :
                      [kind |-> "ChopFrame", frame_type |-> frame_type,
                       offset_delta |-> x])
               [] frame_type = 251 ->
                    Map(U2(t.d), LAMBDA x :
                      [kind |-> "SameFrameExtended", frame_type |-> frame_type,
                       offset_delta |-> x])
               [] frame_type >= 252 /\ frame_type <= 254 ->
                    Map(ParseSeq(<<One("u2"),
                                   Vec("last_u2", "VerificationTypeInfo")>>, t.d),
                        LAMBDA x :
                          [kind |-> "AppendFrame", frame_type |-> frame_type,
                           offset_delta |-> x[1], locals |-> x[2]])
               [] frame_type = 255 ->
                    Map(ParseSeq(<<One("u2"), Vec("u2", "VerificationTypeInfo"),
                                   Vec("u2", "VerificationTypeInfo")>>, t.d),
                        LAMBDA x :
                          [kind |-> "FullFrame", frame_type |-> frame_type,
                           offset_delta |-> x[1], locals |-> x[2], stack |-> x[3]])
               [] OTHER ->
                    Err(ParseErrWith("Invalid StackMapFrame type", frame_type), t.d)

StackMapFrameParse(d) == StackMapFrameOfType(U1(d))

AttributeInnerClassParse(d) ==
    Map(ParseSeq(<<One("FromPool"), One("FromPool"), One("FromPool"),
                   One("u2")>>, d), LAMBDA x :
      [inner_class_info_index |-> x[1], outer_class_info_index |-> x[2],
       inner_class_name_index |-> x[3], inner_class_access_flags |-> x[4]])

AttributeLineNumberParse(d) ==
    Map(ParseSeq(<<One("u2"), One("u2")>>, d), LAMBDA x :
      [start_pc |-> x[1], line_number |-> x[2]])

AttributeLocalVariableTableParse(d) ==
    Map(ParseSeq(<<One("u2"), One("u2"), One("FromPool"), One("FromPool"),
                   One("u2")>>, d), LAMBDA x :
      [start_pc |-> x[1], length |-> x[2], name_index |-> x[3],
       descriptor_or_signature_index |-> x[4], index |-> x[5]])

AnnotationParse(d) ==
    Map(ParseSeq(<<One("FromPool"), One("u2"),
                   Vec("last_u2", "AnnotationElementValuePair")>>, d), LAMBDA x :
      [type_index |-> x[1], num_element_value_pairs |-> x[2],
       element_value_pairs |-> x[3]])

\* match tag { .. } of AnnotationElementValueValue::parse, l the result of
\* data.last_u1()?
AnnotationElementValueValueOfTag(l) ==
    IF l.t # "Ok" THEN l
    ELSE LET tag == l.v
         IN  CASE tag \in {66, 67, 68, 70, 73, 74, 83, 90, 115} ->
                    Map(Cp(l.d), LAMBDA x : [kind |-> "ConstValueIndex", index |-> x])
               [] tag = 101 ->
                    Map(ParseSeq(<<One("FromPool"), One("FromPool")>>, l.d),
                        LAMBDA x :
                          [kind |-> "EnumConstValue", type_name_index |-> x[1],
                           const_name_index |-> x[2]])
               [] tag = 99 ->
                    Map(Cp(l.d), LAMBDA x : [kind |-> "ClassInfoIndex", index |-> x])
               [] tag = 64 ->
                    Map(Parse("Annotation", l.d), LAMBDA x :
                      [kind |-> "AnnotationValue", annotation |-> x])
               [] tag = 91 ->
                    Map(ParseCounted("u2", "AnnotationElementValue", l.d), LAMBDA x :
                      [kind |-> "ArrayValue", values |-> x])
               [] OTHER ->
                    Err(ParseErrWith("Invalid AnnotationElementValueValue tag", tag),
                        l.d)

AnnotationElementValueValueParse(d) == AnnotationElementValueValueOfTag(LastU1(d))

AnnotationElementValueParse(d) ==
    Map(ParseSeq(<<One("u1"), One("AnnotationElementValueValue")>>, d), LAMBDA x :
      [tag |-> x[1], value |-> x[2]])

AnnotationElementValuePairParse(d) ==
    Map(ParseSeq(<<One("FromPool"), One("AnnotationElementValue")>>, d), LAMBDA x :
      [element_name_index |-> x[1], element_name_name |-> x[2]])

ParameterAnnotationParse(d) ==
    Map(ParseCounted("u2", "Annotation", d), LAMBDA x : [annotations |-> x])

BootstrapMethodParse(d) ==
    Map(ParseSeq(<<One("FromPool"), Vec("u2", "FromPool")>>, d), LAMBDA x :
      [bootstrap_method_ref |-> x[1], bootstrap_arguments |-> x[2]])

\* T::parse(data) for the T a parse_vec or a struct literal asks for, and the
\* reads of Data a struct literal makes
Parse(kind, d) ==
    CASE kind = "u1" -> U1(d)
      [] kind = "u2" -> U2(d)
      [] kind = "u4" -> U4(d)
      [] kind = "last_u1" -> LastU1(d)
      [] kind = "last_u2" -> LastU2(d)
      [] kind = "last_u4" -> LastU4(d)
      [] kind = "FromPool" -> Cp(d)
      [] kind = "CpInfo" -> CpInfoParse(d)
      [] kind = "FieldInfo" -> MemberInfoParse(d)
      [] kind = "MethodInfo" -> MemberInfoParse(d)
      [] kind = "AttributeInfo" -> AttributeInfoParse(d)
      [] kind = "AttributeCodeException" -> AttributeCodeExceptionParse(d)
      [] kind = "StackMapFrame" -> StackMapFrameParse(d)
      [] kind = "VerificationTypeInfo" -> VerificationTypeInfoParse(d)
      [] kind = "AttributeInnerClass" -> AttributeInnerClassParse(d)
      [] kind = "AttributeLineNumber" -> AttributeLineNumberParse(d)
      [] kind = "AttributeLocalVariableTable" -> AttributeLocalVariableTableParse(d)
      [] kind = "Annotation" -> AnnotationParse(d)
      [] kind = "AnnotationElementValuePair" -> AnnotationElementValuePairParse(d)
      [] kind = "AnnotationElementValue" -> AnnotationElementValueParse(d)
      [] kind = "AnnotationElementValueValue" -> AnnotationElementValueValueParse(d)
      [] kind = "ParameterAnnotation" -> ParameterAnnotationParse(d)
      [] kind = "BootstrapMethod" -> BootstrapMethodParse(d)

---------------------------------------------------------------------------
(* The attribute-resolve phase *)

RECURSIVE ResolveAttribute(_, _), ResolveAllFrom(_, _, _, _)
RECURSIVE ResolveAllPush(_, _, _, _, _)

\* iter_mut().map(|attr| attr.resolve_attribute(pool)).collect::<Result<Vec<()>>>():
\* the attributes in order, stopping at the first failure
ResolveAll(attrs, pool) == ResolveAllFrom(attrs, 1, pool, <<>>)

ResolveAllFrom(attrs, i, pool, acc) ==
    IF i > Len(attrs) THEN Ok(acc, DataNew(<<>>))
    ELSE ResolveAllPush(attrs, i, pool, acc, ResolveAttribute(attrs[i], pool))

\* a collect that leaves an attribute that failed as it is and goes on
ResolveAllPushPastFailure(attrs, i, pool, acc, r) ==
    IF r.t # "Ok" THEN ResolveAllFrom(attrs, i + 1, pool, Append(acc, attrs[i]))
    ELSE ResolveAllFrom(attrs, i + 1, pool, Append(acc, r.v))

\* the next attribute after the one whose resolution gave r
ResolveAllPush(attrs, i, pool, acc, r) ==
    IF r.t # "Ok" THEN r ELSE ResolveAllFrom(attrs, i + 1, pool, Append(acc, r.v))

\* a struct literal as data: the variant, its field names and how each is read
Layout(kind, names, fields) == [kind |-> kind, names |-> names, fields |-> fields]

\* the variant kind with the values x in its fields
Variant(kind, names, x) ==
    [f \in {"kind"} \cup {names[i] : i \in DOMAIN names} |->
       IF f = "kind" THEN kind ELSE x[CHOOSE i \in DOMAIN names : names[i] = f]]

\* the arm match name { .. } takes; no arm for a name outside the twenty
AttributeLayout(name) ==
    CASE name = Str(<<"C","o","n","s","t","a","n","t","V","a","l","u","e">>) ->
           Layout("ConstantValue",
                  <<"constantvalue_index">>,
                  <<One("FromPool")>>)
      [] name = Str(<<"C","o","d","e">>) ->
           Layout("Code",
                  <<"max_stack", "max_locals", "code", "exception_table", "attributes">>,
                  <<One("u2"), One("u2"), Vec("u4", "u1"), Vec("u2", "AttributeCodeException"), Vec("u2", "AttributeInfo")>>)
      [] name = Str(<<"S","t","a","c","k","M","a","p","T","a","b","l","e">>) ->
           Layout("StackMapTable",
                  <<"number_of_entries", "entries">>,
                  <<One("u2"), Vec("last_u2", "StackMapFrame")>>)
      [] name = Str(<<"E","x","c","e","p","t","i","o","n","s">>) ->
           Layout("Exceptions",
                  <<"exception_index_table">>,
                  <<Vec("u2", "u2")>>)
      [] name = Str(<<"I","n","n","e","r","C","l","a","s","s","e","s">>) ->
           Layout("InnerClasses",
                  <<"classes">>,
                  <<Vec("u2", "AttributeInnerClass")>>)
      [] name = Str(<<"E","n","c","l","o","s","i","n","g","M","e","t","h",
                      "o","d">>) ->
           Layout("EnclosingMethod",
                  <<"class_index", "method_index">>,
                  <<One("FromPool"), One("FromPool")>>)
      [] name = Str(<<"S","y","n","t","h","e","t","i","c">>) ->
           Layout("Synthetic",
                  <<>>,
                  <<>>)
      [] name = Str(<<"S","i","g","n","a","t","u","r","e">>) ->
           Layout("Signature",
                  <<"signature_index">>,
                  <<One("FromPool")>>)
      [] name = Str(<<"S","o","u","r","c","e","F","i","l","e">>) ->
           Layout("SourceFile",
                  <<"sourcefile_index">>,
                  <<One("FromPool")>>)
      [] name = Str(<<"S","o","u","r","c","e","D","e","b","u","g","E","x",
                      "t","e","n","s","i","o","n">>) ->
           Layout("SourceDebugExtension",
                  <<"debug_extension">>,
                  <<Vec("last_u2", "u1")>>)
      [] name = Str(<<"L","i","n","e","N","u","m","b","e","r","T","a","b",
                      "l","e">>) ->
           Layout("LineNumberTable",
                  <<"line_number_table">>,
                  <<Vec("u2", "AttributeLineNumber")>>)
      [] name = Str(<<"L","o","c","a","l","V","a","r","i","a","b","l","e",
                      "T","a","b","l","e">>) ->
           Layout("LocalVariableTable",
                  <<"local_variable_table">>,
                  <<Vec("u2", "AttributeLocalVariableTable")>>)
      [] name = Str(<<"L","o","c","a","l","V","a","r","i","a","b","l","e",
                      "T","y","p","e","T","a","b","l","e">>) ->
           Layout("LocalVariableTypeTable",
                  <<"local_variable_table">>,
                  <<Vec("u2", "AttributeLocalVariableTable")>>)
      [] name = Str(<<"D","e","p","r","e","c","a","t","e","d">>) ->
           Layout("Deprecated",
                  <<>>,
                  <<>>)
      [] name = Str(<<"R","u","n","t","i","m","e","V","i","s","i","b","l",
                      "e","A","n","n","o","t","a","t","i",
                      "o","n","s">>) ->
           Layout("RuntimeVisibleAnnotations",
                  <<"annotations">>,
                  <<Vec("u2", "Annotation")>>)
      [] name = Str(<<"R","u","n","t","i","m","e","I","n","v","i","s","i",
                      "b","l","e","A","n","n","o","t","a",
                      "t","i","o","n","s">>) ->
           Layout("RuntimeInvisibleAnnotations",
                  <<"annotations">>,
                  <<Vec("u2", "Annotation")>>)
      [] name = Str(<<"R","u","n","t","i","m","e","V","i","s","i","b","l",
                      "e","P","a","r","a","m","e","t","e",
                      "r","A","n","n","o","t","a","t","i",
                      "o","n","s">>) ->
           Layout("RuntimeVisibleParameterAnnotations",
                  <<"parameter_annotations">>,
                  <<Vec("u1", "ParameterAnnotation")>>)
      [] name = Str(<<"R","u","n","t","i","m","e","I","n","v","i","s","i",
                      "b","l","e","P","a","r","a","m","e",
                      "t","e","r","A","n","n","o","t","a",
                      "t","i","o","n","s">>) ->
           Layout("RuntimeInvisibleParameterAnnotations",
                  <<"parameter_annotations">>,
                  <<Vec("u1", "ParameterAnnotation")>>)
      [] name = Str(<<"A","n","n","o","t","a","t","i","o","n","D","e","f",
                      "a","u","l","t">>) ->
           Layout("AnnotationDefault",
                  <<"default_value">>,
                  <<One("AnnotationElementValue")>>)
      [] name = Str(<<"B","o","o","t","s","t","r","a","p","M","e","t","h",
                      "o","d","s">>) ->
           Layout("BootstrapMethods",
                  <<"bootstrap_methods">>,
                  <<Vec("u2", "BootstrapMethod")>>)
      [] OTHER -> Layout("", <<>>, <<>>)

\* the struct literal of the arm, its fields read from the content
AttributeInnerParse(layout, d) ==
    Map(ParseSeq(layout.fields, d),
        LAMBDA x : Variant(layout.kind, layout.names, x))

\* a Code arm that leaves the nested attributes as they were parsed
ResolveCodeShallow(inner, pool) == inner

CodeWith(code, nested) ==
    IF nested.t # "Ok" THEN nested
    ELSE Ok([code.v EXCEPT !.attributes = nested.v], code.d)

\* the second pass of a Code arm that resolves its nested attributes twice
ResolveAgain(code, once, pool) ==
    IF once.t # "Ok" THEN once ELSE CodeWith(code, ResolveAll(once.v, pool))

\* a Code arm that resolves its nested attributes twice
ResolveCodeTwice(inner, pool) ==
    IF inner.t # "Ok" \/ inner.v.kind # "Code" THEN inner
    ELSE ResolveAgain(inner, ResolveAll(inner.v.attributes, pool), pool)

\* if let AttributeInfoInner::Code { ref mut attributes, .. } = code.inner:
\* the nested attributes resolved in place
ResolveCode(inner, pool) ==
    IF inner.t # "Ok" \/ inner.v.kind # "Code" THEN inner
    ELSE CodeWith(inner, ResolveAll(inner.v.attributes, pool))

\* a match whose last arm keeps an attribute of any other name as Unknown
ResolveAttributeBodyKeepingUnknown(name, d, pool) ==
    IF AttributeLayout(name).kind = ""
    THEN Ok([kind |-> "Unknown", attribute_content |-> d.data], d)
    ELSE ResolveCode(AttributeInnerParse(AttributeLayout(name), d), pool)

\* the match on the attribute's name: the body of the resolved attribute
ResolveAttributeBody(name, d, pool) ==
    IF AttributeLayout(name).kind = ""
    THEN Err(ParseErrWith("Invalid Attribute name", name), d)
    ELSE ResolveCode(AttributeInnerParse(AttributeLayout(name), d), pool)

\* resolve_attribute_inner: *self is replaced only when the match produced a value
ResolveAttributeInner(attribute_name_index, attribute_length, name, d, pool) ==
    Map(ResolveAttributeBody(name, d, pool), LAMBDA inner :
      AttributeOf(attribute_name_index, attribute_length, inner))

\* (*index) as usize - 1
NameSlot(index) ==
    IF index - 1 < 0 /\ overflow_checks
    THEN Panic("attempt to subtract with overflow", DataNew(<<>>))
    ELSE Ok(index - 1, DataNew(<<>>))

\* match pool.get(..) { .. } and the call of resolve_attribute_inner, slot the
\* result of the subtraction
ResolveAttributeNamed(attr, pool, slot) ==
    IF slot.t # "Ok" THEN slot
    ELSE IF SliceGet(pool, slot.v) = <<>>
    THEN Err(ParseErr("Constant Pool index out of Bounds"), slot.d)
    ELSE IF SliceGet(pool, slot.v)[1].inner.kind # "Utf8"
    THEN Err(ParseErr("Attribute name is not CpInfo::Utf8"), slot.d)
    ELSE ResolveAttributeInner(attr.attribute_name_index,
             attr.attribute_length, SliceGet(pool, slot.v)[1].inner.bytes,
             DataNew(attr.inner.attribute_content), pool)

ResolveAttribute(attr, pool) ==
    IF attr.inner.kind # "Unknown"
    THEN Panic("Attribute already resolved", DataNew(<<>>))
    ELSE ResolveAttributeNamed(attr, pool, NameSlot(attr.attribute_name_index))

---------------------------------------------------------------------------
(* Typed pool references: FromPool<T>, FromCpInfo, ValidateCpInfo *)

\* the variants a reference can be typed with; "CpInfoInner" is the open tag
PoolKinds ==
    {"Class", "Fieldref", "MethodRef", "InterfaceMethodref", "String", "Integer",
     "Float", "Long", "Double", "NameAndType", "Utf8", "MethodHandle",
     "MethodType", "InvokeDynamic"}

\* info[index as usize - 1]: an index that is 0 panics in the subtraction under
\* overflow checks and in the bounds check otherwise
PoolIndex(info, index) ==
    IF index - 1 < 0 /\ overflow_checks
    THEN Panic("attempt to subtract with overflow", DataNew(<<>>))
    ELSE LET item == SliceGet(info, index - 1)
         IN  IF item = <<>> THEN Panic("index out of bounds", DataNew(<<>>))
             ELSE Ok(item[1], DataNew(<<>>))

\* T::from_cp_info: the inner record (the str of a Utf8), nothing else expected
FromCpInfo(kind, info) ==
    IF kind = "CpInfoInner" THEN Ok(info.inner, DataNew(<<>>))
    ELSE IF info.inner.kind # kind
    THEN Panic("internal error: entered unreachable code", DataNew(<<>>))
    ELSE IF kind = "Utf8" THEN Ok(info.inner.bytes, DataNew(<<>>))
    ELSE Ok(info.inner, DataNew(<<>>))

FromCpInfoWithIndex(kind, info, index) ==
    LET item == PoolIndex(info, index)
    IN  IF item.t # "Ok" THEN item ELSE FromCpInfo(kind, item.v)

\* FromPool<T>::get
FromPoolGet(kind, index, pool) == FromCpInfoWithIndex(kind, pool, index)

\* an Option: None is <<>>, Some(x) is <<x>>
Some(r) == IF r.t = "Ok" THEN Ok(<<r.v>>, r.d) ELSE r

\* a maybe_get without the test for index 0
MaybeGetNoZeroCheck(kind, index, pool) ==
    Some(FromCpInfoWithIndex(kind, pool, index))

\* FromPool<Option<T>>::maybe_get
FromPoolMaybeGet(kind, index, pool) ==
    IF index = 0 THEN Ok(<<>>, DataNew(<<>>))
    ELSE Some(FromCpInfoWithIndex(kind, pool, index))

\* <Option<T> as FromCpInfo>::from_cp_info_with_index, behind FromPool<Option<T>>::get
OptionFromCpInfoWithIndex(kind, info, index) ==
    IF index = 0 THEN Ok(<<>>, DataNew(<<>>))
    ELSE Some(FromCpInfoWithIndex(kind, info, index))

\* T::validate_cp_info
ValidateCpInfo(kind, info, index) ==
    IF kind = "CpInfoInner" THEN Ok(<<>>, DataNew(<<>>))
    ELSE IF index = 0 THEN Err(ParseErr("Index must not be 0"), DataNew(<<>>))
    ELSE LET item == PoolIndex(info, index)
         IN  IF item.t # "Ok" THEN item
             ELSE IF item.v.inner.kind = kind THEN Ok(<<>>, item.d)
             ELSE Err(ParseErrWith("Expected, found", <<kind, item.v.inner.kind>>),
                      item.d)

\* <Option<T> as ValidateCpInfo>::validate_cp_info
OptionValidateCpInfo(kind, info, index) ==
    IF index = 0 THEN Ok(<<>>, DataNew(<<>>)) ELSE ValidateCpInfo(kind, info, index)

---------------------------------------------------------------------------
(* crates/machine: the operand stack, arr: [u32; 255] and sp: u8 *)

\* the length of arr
ArrLen == 255

\* OperandStack::new
OperandStackNew == [arr |-> [i \in 1..ArrLen |-> 0], sp |-> 0]

\* self.sp - k on u8: panics under overflow checks, wraps otherwise
SpSub(s, k) ==
    IF s.sp - k < 0 /\ overflow_checks
    THEN Panic("attempt to subtract with overflow", s)
    ELSE Ok((s.sp - k + 256) % 256, s)

\* self.sp + 1 on u8
SpAdd(s) ==
    IF s.sp + 1 > 255 /\ overflow_checks
    THEN Panic("attempt to add with overflow", s)
    ELSE Ok((s.sp + 1) % 256, s)

\* self.arr[self.sp as usize] after self.sp -= 1, sp the result of the
\* subtraction: the d of the result is the stack after the call
PopAt(s, sp) ==
    IF sp.t # "Ok" THEN sp
    ELSE IF sp.v >= ArrLen THEN Panic("index out of bounds", [s EXCEPT !.sp = sp.v])
    ELSE Ok(s.arr[sp.v + 1], [s EXCEPT !.sp = sp.v])

\* OperandStack::pop
Pop(s) == PopAt(s, SpSub(s, 1))

\* self.sp += 1 after the store, sp the result of the addition
PushAt(s, n, sp) ==
    IF sp.t # "Ok" THEN [sp EXCEPT !.d = [s EXCEPT !.arr[s.sp + 1] = n]]
    ELSE Ok(0, [s EXCEPT !.arr[s.sp + 1] = n, !.sp = sp.v])

\* OperandStack::push
Push(s, n) ==
    IF s.sp >= ArrLen THEN Panic("index out of bounds", s)
    ELSE PushAt(s, n, SpAdd(s))

\* the arr after self.arr.swap(a, b), slice::swap on two indices
ArrSwap(arr, a, b) == [arr EXCEPT ![a + 1] = arr[b + 1], ![b + 1] = arr[a + 1]]

\* self.arr.swap((self.sp - 2) as usize, (self.sp - 2) as usize), a and b the
\* results of the two subtractions
SwapAt(s, a, b) ==
    IF a.t # "Ok" THEN a
    ELSE IF b.t # "Ok" THEN b
    ELSE IF a.v >= ArrLen \/ b.v >= ArrLen THEN Panic("index out of bounds", s)
    ELSE Ok(0, [s EXCEPT !.arr = ArrSwap(s.arr, a.v, b.v)])

\* OperandStack::swap
Swap(s) == SwapAt(s, SpSub(s, 2), SpSub(s, 2))

---------------------------------------------------------------------------
(* Inputs: class files assembled from a few on-wire pieces *)

RECURSIVE Flatten(_)
Flatten(ss) == IF ss = <<>> THEN <<>> ELSE Head(ss) \o Flatten(Tail(ss))

SeqsUpTo(S, n) == UNION {[1..k -> S] : k \in 0..n}

B2(n) == <<n \div 256, n % 256>>
B4(n) == <<0, 0>> \o B2(n)

Utf8Entry(str) == <<1>> \o B2(Len(str)) \o str
ClassEntry(i) == <<7>> \o B2(i)
LongEntry == <<5, 0, 0, 0, 0, 0, 0, 0, 1>>
DoubleEntry == <<6, 64, 0, 0, 0, 0, 0, 0, 0>>
\* a Dynamic entry (tag 17): bootstrap-method-attr index 0, NameAndType 1
DynamicEntry == <<17, 0, 0, 0, 1>>

CodeName == Str(<<"C","o","d","e">>)
SyntheticName == Str(<<"S","y","n","t","h","e","t","i","c">>)
CustomName == Str(<<"M","y","C","u","s","t","o","m">>)

\* the entries generated pools are made of; the last one has an unknown tag
EntryTemplates ==
    {Utf8Entry(CodeName), Utf8Entry(SyntheticName), Utf8Entry(CustomName),
     ClassEntry(1), ClassEntry(2), LongEntry, <<99>>, DynamicEntry}

IsWide(entry) == entry[1] \in {5, 6}

WideCount(es) == Cardinality({i \in 1..Len(es) : IsWide(es[i])})

\* constant_pool_count values for the entries es: one more than the number of
\* entries, one more than the number of slots when 8-byte constants take two,
\* and 0 for an empty pool
PoolCounts(es) ==
    {Len(es) + 1, Len(es) + 1 + WideCount(es)} \cup (IF es = <<>> THEN {0} ELSE {})

AttributeBytes(name_index, payload) ==
    B2(name_index) \o B4(Len(payload)) \o payload

\* the payload of a Code attribute: one return instruction, no exception
\* handlers, the given nested attributes
CodePayload(nested) ==
    B2(1) \o B2(1) \o B4(1) \o <<177>> \o B2(0) \o B2(Len(nested)) \o Flatten(nested)

\* an attribute named by slot a that nests Code attributes depth deep around an
\* empty attribute named by slot b
RECURSIVE NestedAttribute(_, _, _)
NestedAttribute(a, b, depth) ==
    IF depth = 0 THEN AttributeBytes(b, <<>>)
    ELSE AttributeBytes(a, CodePayload(<<NestedAttribute(a, b, depth - 1)>>))

MemberBytes(name, descriptor, attrs) ==
    B2(1) \o B2(name) \o B2(descriptor) \o B2(Len(attrs)) \o Flatten(attrs)

BodyBytes(this, super, interfaces, fields, methods, attrs) ==
    B2(33) \o B2(this) \o B2(super)
      \o B2(Len(interfaces)) \o Flatten(interfaces)
      \o B2(Len(fields)) \o Flatten(fields)
      \o B2(Len(methods)) \o Flatten(methods)
      \o B2(Len(attrs)) \o Flatten(attrs)

NameSlots == 1..2

Bodies ==
    {BodyBytes(this, 0, <<>>, <<>>, <<>>, <<>>) : this \in 0..2}
      \cup {BodyBytes(1, 1, <<B2(1)>>, <<>>, <<>>, <<>>)}
      \cup {BodyBytes(1, 0, <<>>, <<>>, <<>>, <<AttributeBytes(0, <<>>)>>)}
      \cup {BodyBytes(1, 0, <<>>, <<>>, <<>>, <<NestedAttribute(a, b, k)>>) :
              a \in NameSlots, b \in NameSlots, k \in 0..MaxCodeDepth}
      \cup {BodyBytes(1, 0, <<>>, <<>>,
                      <<MemberBytes(1, 1, <<NestedAttribute(a, b, 1)>>)>>, <<>>) :
              a \in NameSlots, b \in NameSlots}
      \cup {BodyBytes(1, 0, <<>>,
                      <<MemberBytes(1, 1, <<AttributeBytes(a, <<>>)>>)>>, <<>>, <<>>) :
              a \in NameSlots}
      \cup {BodyBytes(1, 0, <<>>, <<>>,
                      <<MemberBytes(1, 1, <<AttributeBytes(b, <<>>)>>)>>,
                      <<AttributeBytes(a, <<>>)>>) :
              a \in NameSlots, b \in NameSlots}
      \cup {BodyBytes(1, 0, <<>>, <<>>, <<>>,
                      <<AttributeBytes(a, <<>>), AttributeBytes(3 - a, <<>>)>>) :
              a \in NameSlots}
      \cup {BodyBytes(1, 0, <<>>,
                      <<MemberBytes(1, 1, <<AttributeBytes(3 - a, <<>>)>>)>>,
                      <<MemberBytes(1, 1, <<AttributeBytes(a, <<>>)>>)>>, <<>>) :
              a \in NameSlots}

GoodMagic == <<202, 254, 186, 190>>
BadMagic == <<222, 173, 190, 239>>

FileBytes(magic, count, es, body) ==
    magic \o B2(0) \o B2(59) \o B2(count) \o Flatten(es) \o body

\* a class file with a Utf8, a Class and a Long in its pool and one method
\* carrying a Code attribute
ReferenceEntries == <<Utf8Entry(CodeName), ClassEntry(1), LongEntry>>

ReferenceBody ==
    BodyBytes(2, 0, <<>>, <<>>, <<MemberBytes(1, 1, <<NestedAttribute(1, 1, 0)>>)>>, <<>>)

ReferenceFile == FileBytes(GoodMagic, 4, ReferenceEntries, ReferenceBody)

\* where the constant pool of ReferenceFile ends
ReferencePoolEnd == 10 + Len(Flatten(ReferenceEntries))

Prefixes(bytes) == {SubSeq(bytes, 1, k) : k \in 0..Len(bytes)}

Inputs ==
    {FileBytes(GoodMagic, n[2], n[1], body) :
        n \in {<<es, c>> \in SeqsUpTo(EntryTemplates, MaxPoolEntries) \X (0..(2 * MaxPoolEntries + 1)) :
                 c \in PoolCounts(es)},
        body \in Bodies}
      \cup {FileBytes(BadMagic, 1, <<>>, BodyBytes(0, 0, <<>>, <<>>, <<>>, <<>>)),
            FileBytes(BadMagic, 4, ReferenceEntries, ReferenceBody)}
      \cup Prefixes(ReferenceFile)
      \cup Prefixes(FileBytes(BadMagic, 4, ReferenceEntries, ReferenceBody))

---------------------------------------------------------------------------
(* parse_class_file: ClassFile::parse, one action per statement group *)

Magic == U4Of(51966, 47806)    \* 0xCAFEBABE

NoClass ==
    [magic |-> U4Of(0, 0), minor_version |-> 0, major_version |-> 0,
     constant_pool |-> <<>>, access_flags |-> 0, this_class |-> 0,
     super_class |-> 0, interfaces |-> <<>>, fields |-> <<>>, methods |-> <<>>,
     attributes |-> <<>>]

Running == [t |-> "Running", v |-> 0, e |-> NoErr, d |-> DataNew(<<>>)]

\* the call returns r (an Err) or unwinds with it (a Panic)
Return(r) ==
    /\ result' = [r EXCEPT !.v = 0]
    /\ pc' = "done"

\* let magic = data.u4()?; assert_eq!(magic, 0xCAFEBABE);
ParseMagic ==
    /\ pc = "magic"
    /\ LET Checked(r) ==
               /\ data' = r.d
               /\ IF r.t # "Ok" THEN Return(r) /\ UNCHANGED class
                  ELSE IF r.v # Magic
                  THEN Return(Panic("assertion failed: magic == 0xCAFEBABE", r.d))
                       /\ UNCHANGED class
                  ELSE /\ class' = [class EXCEPT !.magic = r.v]
                       /\ pc' = "version"
                       /\ UNCHANGED result
       IN  Checked(U4(data))
    /\ UNCHANGED <<overflow_checks, stack, len, ret>>

\* let minor_version = data.u2()?; let major_version = data.u2()?;
ParseVersion ==
    /\ pc = "version"
    /\ LET Stored(r) ==
               /\ data' = r.d
               /\ IF r.t # "Ok" THEN Return(r) /\ UNCHANGED class
                  ELSE /\ class' = [class EXCEPT !.minor_version = r.v[1],
                                                 !.major_version = r.v[2]]
                       /\ pc' = "constant_pool_count"
                       /\ UNCHANGED result
       IN  Stored(ParseSeq(<<One("u2"), One("u2")>>, data))
    /\ UNCHANGED <<overflow_checks, stack, len, ret>>

\* data.u2()? - 1 on u2: panics on 0 under overflow checks, else wraps to 65535
CountMinusOne(count) ==
    IF count = 0 /\ overflow_checks
    THEN Panic("attempt to subtract with overflow", DataNew(<<>>))
    ELSE Ok((count + 65535) % 65536, DataNew(<<>>))

\* the argument of parse_vec(data.u2()? - 1, data)
ParseConstantPoolCount ==
    /\ pc = "constant_pool_count"
    /\ LET Counted(r, n) ==
               /\ data' = r.d
               /\ IF r.t # "Ok" THEN Return(r) /\ UNCHANGED len
                  ELSE IF n.t # "Ok"
                  THEN Return([n EXCEPT !.d = r.d]) /\ UNCHANGED len
                  ELSE /\ len' = n.v
                       /\ pc' = "constant_pool"
                       /\ UNCHANGED result
           Read(r) == Counted(r, CountMinusOne(r.v))
       IN  Read(U2(data))
    /\ UNCHANGED <<overflow_checks, stack, class, ret>>

\* one turn of parse_vec's loop: vec.push(CpInfo::parse(data)?)
ParseCpInfo ==
    /\ pc = "constant_pool"
    /\ Len(class.constant_pool) < len
    /\ LET Pushed(r) ==
               /\ data' = r.d
               /\ IF r.t # "Ok" THEN Return(r) /\ UNCHANGED class
                  ELSE /\ class' = [class EXCEPT !.constant_pool = Append(@, r.v)]
                       /\ UNCHANGED <<pc, result>>
       IN  Pushed(Parse("CpInfo", data))
    /\ UNCHANGED <<overflow_checks, stack, len, ret>>

\* access_flags, this_class, super_class, interfaces, fields, methods, attributes
ClassBodyParse(d) ==
    Map(ParseSeq(<<One("u2"), One("FromPool"), One("FromPool"),
                   Vec("u2", "FromPool"), Vec("u2", "FieldInfo"),
                   Vec("u2", "MethodInfo"), Vec("u2", "AttributeInfo")>>, d),
        LAMBDA x :
          [access_flags |-> x[1], this_class |-> x[2], super_class |-> x[3],
           interfaces |-> x[4], fields |-> x[5], methods |-> x[6],
           attributes |-> x[7]])

ParseClassBody ==
    /\ pc = "constant_pool"
    /\ Len(class.constant_pool) = len
    /\ LET Stored(r) ==
               /\ data' = r.d
               /\ IF r.t # "Ok" THEN Return(r) /\ UNCHANGED class
                  ELSE /\ class' = [class EXCEPT
                                      !.access_flags = r.v.access_flags,
                                      !.this_class = r.v.this_class,
                                      !.super_class = r.v.super_class,
                                      !.interfaces = r.v.interfaces,
                                      !.fields = r.v.fields,
                                      !.methods = r.v.methods,
                                      !.attributes = r.v.attributes]
                       /\ pc' = "resolve_attributes"
                       /\ UNCHANGED result
       IN  Stored(ClassBodyParse(data))
    /\ UNCHANGED <<overflow_checks, stack, len, ret>>

\* the attributes of each member in turn, stopping at the first failure
RECURSIVE ResolveMembersFrom(_, _, _, _), ResolveMembersPush(_, _, _, _, _)
ResolveMembersFrom(members, i, pool, acc) ==
    IF i > Len(members) THEN Ok(acc, DataNew(<<>>))
    ELSE ResolveMembersPush(members, i, pool, acc,
                            ResolveAll(members[i].attributes, pool))

\* the next member after the one whose attributes resolved to r
ResolveMembersPush(members, i, pool, acc, r) ==
    IF r.t # "Ok" THEN r
    ELSE ResolveMembersFrom(members, i + 1, pool,
             Append(acc, [members[i] EXCEPT !.attributes = r.v]))

ResolveMembers(members, pool) == ResolveMembersFrom(members, 1, pool, <<>>)

\* resolve_attributes, first pass: class.attributes
ResolveClassAttributes ==
    /\ pc = "resolve_attributes"
    /\ LET Stored(r) ==
               IF r.t # "Ok" THEN Return(r) /\ UNCHANGED class
               ELSE /\ class' = [class EXCEPT !.attributes = r.v]
                    /\ pc' = "resolve_methods"
                    /\ UNCHANGED result
       IN  Stored(ResolveAll(class.attributes, class.constant_pool))
    /\ UNCHANGED <<overflow_checks, stack, data, len, ret>>

\* resolve_attributes, second pass: the attributes of class.methods
ResolveMethodAttributes ==
    /\ pc = "resolve_methods"
    /\ LET Stored(r) ==
               IF r.t # "Ok" THEN Return(r) /\ UNCHANGED class
               ELSE /\ class' = [class EXCEPT !.methods = r.v]
                    /\ pc' = "resolve_fields"
                    /\ UNCHANGED result
       IN  Stored(ResolveMembers(class.methods, class.constant_pool))
    /\ UNCHANGED <<overflow_checks, stack, data, len, ret>>

\* resolve_attributes, third pass: the attributes of class.fields; Ok(class)
ResolveFieldAttributes ==
    /\ pc = "resolve_fields"
    /\ LET Stored(r) ==
               IF r.t # "Ok" THEN Return(r) /\ UNCHANGED class
               ELSE /\ class' = [class EXCEPT !.fields = r.v]
                    /\ Return(Ok(0, DataNew(<<>>)))
       IN  Stored(ResolveMembers(class.fields, class.constant_pool))
    /\ UNCHANGED <<overflow_checks, stack, data, len, ret>>

NoRet == [op |-> "none", at |-> 0, kind |-> "", index |-> 0, r |-> Running]

Init ==
    /\ overflow_checks \in BOOLEAN
    /\ stack = OperandStackNew
    /\ data \in {DataNew(bytes) : bytes \in Inputs}
    /\ pc = "magic"
    /\ len = 0
    /\ class = NoClass
    /\ result = Running
    /\ ret = NoRet

Next ==
    \/ ParseMagic
    \/ ParseVersion
    \/ ParseConstantPoolCount
    \/ ParseCpInfo
    \/ ParseClassBody
    \/ ResolveClassAttributes
    \/ ResolveMethodAttributes
    \/ ResolveFieldAttributes

Spec == Init /\ [][Next]_vars

---------------------------------------------------------------------------
(* The cursor on its own: u1, u2 and u4 called in any order on a slice *)

\* the values the bytes of a bare slice take
ByteSample == {0, 1, 255}

InitData ==
    /\ overflow_checks \in BOOLEAN
    /\ stack = OperandStackNew
    /\ data \in {DataNew(bytes) : bytes \in SeqsUpTo(ByteSample, MaxDataLen)}
    /\ pc = "cursor"
    /\ len = 0
    /\ class = NoClass
    /\ result = Running
    /\ ret = NoRet

\* the call op made at the cursor returned r
Called(op, r) ==
    /\ pc = "cursor"
    /\ data.pointer <= Len(data.data)
    /\ data' = r.d
    /\ ret' = [NoRet EXCEPT !.op = op, !.at = data.pointer, !.r = r]
    /\ UNCHANGED <<overflow_checks, stack, pc, len, class, result>>

CallU1 == Called("u1", U1(data))

CallU2 == Called("u2", U2(data))

CallU4 == Called("u4", U4(data))

\* the call op, which takes &self, made right after the call ret holds
\* returned r
CalledLast(op, r) ==
    /\ pc = "cursor"
    /\ ret.op \in {"u1", "u2", "u4"}
    /\ data' = r.d
    /\ ret' = [NoRet EXCEPT !.op = op, !.at = data.pointer, !.kind = ret.op,
                            !.r = r]
    /\ UNCHANGED <<overflow_checks, stack, pc, len, class, result>>

CallLastU1 == CalledLast("last_u1", LastU1(data))

CallLastU2 == CalledLast("last_u2", LastU2(data))

CallLastU4 == CalledLast("last_u4", LastU4(data))

\* a last_ call on a cursor that nothing was read from
CallLastFresh ==
    /\ pc = "cursor"
    /\ ret.op = "none"
    /\ \E op \in {"last_u1", "last_u2", "last_u4"} :
         ret' = [NoRet EXCEPT !.op = op, !.at = data.pointer,
                   !.r = Parse(op, data)]
    /\ UNCHANGED <<overflow_checks, stack, data, pc, len, class, result>>

NextData ==
    \/ CallU1
    \/ CallU2
    \/ CallU4
    \/ CallLastU1
    \/ CallLastU2
    \/ CallLastU4
    \/ CallLastFresh

SpecData == InitData /\ [][NextData]_vars

---------------------------------------------------------------------------
(* Pool references on their own: get and maybe_get against a parsed pool *)

\* the entries the pools are parsed from
PoolTemplates == {Utf8Entry(CodeName), ClassEntry(1), LongEntry}

\* the pools the parser builds from up to MaxPoolEntries of them
Pools ==
    {ParseVec("CpInfo", Len(es), DataNew(Flatten(es))).v :
        es \in SeqsUpTo(PoolTemplates, MaxPoolEntries)}

\* the T of the FromPool<T> a reference is held as
RefKinds == {"Class", "Utf8", "Long", "CpInfoInner"}

InitPool ==
    /\ overflow_checks \in BOOLEAN
    /\ stack = OperandStackNew
    /\ data = DataNew(<<>>)
    /\ pc = "pool"
    /\ len = 0
    /\ class \in {[NoClass EXCEPT !.constant_pool = pool] : pool \in Pools}
    /\ result = Running
    /\ ret = NoRet

\* FromPool::<kind>::from(index).get(&class.constant_pool)
Get ==
    /\ pc = "pool"
    /\ \E kind \in RefKinds, index \in 0..(MaxPoolEntries + 1) :
         ret' = [NoRet EXCEPT !.op = "get", !.kind = kind, !.index = index,
                   !.r = FromPoolGet(kind, index, class.constant_pool)]
    /\ UNCHANGED <<overflow_checks, stack, data, pc, len, class, result>>

\* FromPool::<Option<kind>>::from(index).maybe_get(&class.constant_pool)
MaybeGet ==
    /\ pc = "pool"
    /\ \E kind \in RefKinds, index \in 0..(MaxPoolEntries + 1) :
         ret' = [NoRet EXCEPT !.op = "maybe_get", !.kind = kind, !.index = index,
                   !.r = FromPoolMaybeGet(kind, index, class.constant_pool)]
    /\ UNCHANGED <<overflow_checks, stack, data, pc, len, class, result>>

NextPool ==
    \/ Get
    \/ MaybeGet

SpecPool == InitPool /\ [][NextPool]_vars

---------------------------------------------------------------------------
(* One constant-pool entry on its own: CpInfo::parse on the bytes of an entry *)

MaxEntryLen == 3

\* tag bytes and payload bytes of the entries decoded
TagSample == {1, 7, 15, 17, 99}
PayloadSample == {0, 1, 4, 5, 8, 9, 10}

InitEntry ==
    /\ overflow_checks \in BOOLEAN
    /\ stack = OperandStackNew
    /\ data \in {DataNew(<<tag>> \o payload) :
                   tag \in TagSample,
                   payload \in SeqsUpTo(PayloadSample, MaxEntryLen)}
    /\ pc = "entry"
    /\ len = 0
    /\ class = NoClass
    /\ result = Running
    /\ ret = NoRet

\* CpInfo::parse(data)
ParseEntry ==
    /\ pc = "entry"
    /\ ret.op = "none"
    /\ LET Parsed(r) ==
               /\ data' = r.d
               /\ ret' = [NoRet EXCEPT !.op = "CpInfo", !.at = data.pointer,
                                       !.r = r]
       IN  Parsed(Parse("CpInfo", data))
    /\ UNCHANGED <<overflow_checks, stack, pc, len, class, result>>

NextEntry == ParseEntry

SpecEntry == InitEntry /\ [][NextEntry]_vars

---------------------------------------------------------------------------
(* One attribute on its own: AttributeInfo::parse on the bytes of a record,
   then resolve_attribute on what it read, against a pool of names *)

MaxPayloadLen == 3

SourceDebugExtensionName ==
    Str(<<"S","o","u","r","c","e","D","e","b","u","g","E","x","t","e","n","s",
          "i","o","n">>)
ConstantValueName == Str(<<"C","o","n","s","t","a","n","t","V","a","l","u","e">>)

\* the names the records are given, by their slot in the pool
AttributeNames ==
    <<CodeName, SourceDebugExtensionName, ConstantValueName, SyntheticName>>

\* the pool the parser builds from the Utf8 entries of those names
AttributePool ==
    ParseVec("CpInfo", Len(AttributeNames),
             DataNew(Flatten([i \in DOMAIN AttributeNames |->
                                Utf8Entry(AttributeNames[i])]))).v

\* an entry of an exception table: start_pc, end_pc, handler_pc, catch_type
ExceptionBytes(start_pc, end_pc, handler_pc, catch_type) ==
    B2(start_pc) \o B2(end_pc) \o B2(handler_pc) \o B2(catch_type)

\* the payload of a Code attribute: the code, the exception table, the nested
\* attributes
CodeBytes(code, exceptions, nested) ==
    B2(1) \o B2(1) \o B4(Len(code)) \o code
      \o B2(Len(exceptions)) \o Flatten(exceptions)
      \o B2(Len(nested)) \o Flatten(nested)

ExceptionSample == {ExceptionBytes(0, 1, 2, 0), ExceptionBytes(1, 2, 3, 4)}

\* the payloads of the records: every short one, and Code payloads with up
\* to two exception handlers and up to one nested attribute
Payloads ==
    SeqsUpTo({0, 1, 255}, MaxPayloadLen)
      \cup {CodeBytes(<<177>>, exceptions, nested) :
              exceptions \in SeqsUpTo(ExceptionSample, 2),
              nested \in {<<>>, <<AttributeBytes(4, <<>>)>>}}

\* a record that declares over bytes more than its payload holds
RecordBytes(name_index, payload, over) ==
    B2(name_index) \o B4(Len(payload) + over) \o payload

InitAttribute ==
    /\ overflow_checks \in BOOLEAN
    /\ stack = OperandStackNew
    /\ data \in {DataNew(RecordBytes(name_index, payload, over) \o following) :
                   name_index \in DOMAIN AttributeNames,
                   payload \in Payloads,
                   over \in 0..1,
                   following \in {<<>>, AttributeBytes(4, <<0, 3>>)}}
    /\ pc = "attribute"
    /\ len = 0
    /\ class = [NoClass EXCEPT !.constant_pool = AttributePool]
    /\ result = Running
    /\ ret = NoRet

\* AttributeInfo::parse(data), the attribute pushed to class.attributes
ParseAttribute ==
    /\ pc = "attribute"
    /\ LET Parsed(r) ==
               /\ data' = r.d
               /\ ret' = [NoRet EXCEPT !.op = "AttributeInfo",
                                       !.at = data.pointer, !.r = r]
               /\ IF r.t # "Ok" THEN pc' = "done" /\ UNCHANGED class
                  ELSE /\ class' = [class EXCEPT !.attributes = Append(@, r.v)]
                       /\ pc' = "resolve_attribute"
       IN  Parsed(Parse("AttributeInfo", data))
    /\ UNCHANGED <<overflow_checks, stack, len, result>>

\* attr.resolve_attribute(pool) on the attribute that was parsed
ResolveParsed ==
    /\ pc = "resolve_attribute"
    /\ LET Resolved_(r) ==
               /\ ret' = [NoRet EXCEPT !.op = "resolve_attribute", !.r = r]
               /\ IF r.t # "Ok" THEN UNCHANGED class
                  ELSE class' = [class EXCEPT !.attributes = <<r.v>>]
       IN  Resolved_(ResolveAttribute(class.attributes[1], class.constant_pool))
    /\ pc' = "done"
    /\ UNCHANGED <<overflow_checks, stack, data, len, result>>

NextAttribute ==
    \/ ParseAttribute
    \/ ResolveParsed

SpecAttribute == InitAttribute /\ [][NextAttribute]_vars

---------------------------------------------------------------------------
(* One stack-map frame on its own: StackMapFrame::parse on the bytes of a
   frame *)

MaxFrameLen == 5

\* frame types at the ends of every range, and the bytes that follow them:
\* verification-type tags with and without a payload, and one that is none
FrameTypeSample ==
    {0, 63, 64, 127, 128, 200, 245, 246, 247, 248, 250, 251, 252, 253, 254, 255}
FrameByteSample == {0, 1, 7, 9}

InitFrame ==
    /\ overflow_checks \in BOOLEAN
    /\ stack = OperandStackNew
    /\ data \in {DataNew(<<frame_type>> \o rest) :
                   frame_type \in FrameTypeSample,
                   rest \in SeqsUpTo(FrameByteSample, MaxFrameLen)}
    /\ pc = "frame"
    /\ len = 0
    /\ class = NoClass
    /\ result = Running
    /\ ret = NoRet

\* StackMapFrame::parse(data)
ParseFrame ==
    /\ pc = "frame"
    /\ ret.op = "none"
    /\ LET Parsed(r) ==
               /\ data' = r.d
               /\ ret' = [NoRet EXCEPT !.op = "StackMapFrame",
                                       !.at = data.pointer, !.r = r]
       IN  Parsed(Parse("StackMapFrame", data))
    /\ UNCHANGED <<overflow_checks, stack, pc, len, class, result>>

NextFrame == ParseFrame

SpecFrame == InitFrame /\ [][NextFrame]_vars

---------------------------------------------------------------------------
(* The operand stack on its own: push, pop and swap called in any order *)

MaxStackHeight == 3

\* the values pushed
StackValues == {10, 20, 30}

InitStack ==
    /\ overflow_checks \in BOOLEAN
    /\ stack = OperandStackNew
    /\ data = DataNew(<<>>)
    /\ pc = "stack"
    /\ len = 0
    /\ class = NoClass
    /\ result = Running
    /\ ret = NoRet

\* the call op made on the stack returned r; a panic ends the run
CalledStack(op, r) ==
    /\ pc = "stack"
    /\ stack' = r.d
    /\ ret' = [NoRet EXCEPT !.op = op, !.at = stack.sp,
                            !.r = [r EXCEPT !.d = DataNew(<<>>)]]
    /\ pc' = IF r.t = "Ok" THEN "stack" ELSE "done"
    /\ UNCHANGED <<overflow_checks, data, len, class, result>>

CallPush ==
    /\ stack.sp < MaxStackHeight
    /\ \E n \in StackValues : CalledStack("push", Push(stack, n))

CallPop == CalledStack("pop", Pop(stack))

CallSwap == CalledStack("swap", Swap(stack))

NextStack ==
    \/ CallPush
    \/ CallPop
    \/ CallSwap

SpecStack == InitStack /\ [][NextStack]_vars

---------------------------------------------------------------------------
(* Descriptors: FieldDescriptor::from_str and MethodDescriptor::from_str.
   A &str is the sequence of its chars, s.chars() the chars not yet taken;
   the d of a result is the iterator after the call. *)

\* the unit variants of FieldType
Primitive(first) ==
    CASE first = "B" -> "Byte"
      [] first = "C" -> "Char"
      [] first = "D" -> "Double"
      [] first = "F" -> "Float"
      [] first = "I" -> "Int"
      [] first = "J" -> "Long"
      [] first = "S" -> "Short"
      [] first = "Z" -> "Boolean"
      [] OTHER -> ""

Unit(kind) == [kind |-> kind]
Object(name) == [kind |-> "Object", name |-> name]
Array(of) == [kind |-> "Array", of |-> of]

RECURSIVE FieldTypeFromCharIter(_), ObjectName(_, _)

\* an 'L' arm that ends the name at the end of the string as well
ObjectNameToTheEnd(chars, name) ==
    IF chars = <<>> THEN Ok(Object(name), chars)
    ELSE IF Head(chars) = ";" THEN Ok(Object(name), Tail(chars))
    ELSE ObjectName(Tail(chars), Append(name, Head(chars)))

\* the loop of the 'L' arm: chars pushed to name up to the first ';'
ObjectName(chars, name) ==
    IF chars = <<>>
    THEN Err(ParseErr("Expected ; before end of string"), chars)
    ELSE IF Head(chars) = ";" THEN Ok(Object(name), Tail(chars))
    ELSE ObjectName(Tail(chars), Append(name, Head(chars)))

\* Self::Array(Box::new(Self::from_char_iter(chars)?))
ArrayOf(r) == Map(r, Array)

\* match first { .. }
FieldTypeOfFirst(first, chars) ==
    IF Primitive(first) # "" THEN Ok(Unit(Primitive(first)), chars)
    ELSE IF first = "L" THEN ObjectName(chars, <<>>)
    ELSE IF first = "[" THEN ArrayOf(FieldTypeFromCharIter(chars))
    ELSE Err(ParseErrWith("Invalid char in field descriptor", first), chars)

\* FieldType::from_char_iter
FieldTypeFromCharIter(chars) ==
    IF chars = <<>> THEN Err(ParseErr("Empty string"), chars)
    ELSE FieldTypeOfFirst(Head(chars), Tail(chars))

\* the number of calls of from_char_iter on the stack at the deepest point of
\* from_char_iter(chars): the '[' arm calls it again before it returns
RECURSIVE FromCharIterDepth(_)
FromCharIterDepth(chars) ==
    IF chars # <<>> /\ Head(chars) = "[" THEN 1 + FromCharIterDepth(Tail(chars))
    ELSE 1

\* the tuple struct FieldDescriptor(pub FieldType)
FieldDescriptor(field_type) == <<field_type>>

\* <FieldDescriptor as FromStr>::from_str
FieldDescriptorFromStr(s) == Map(FieldTypeFromCharIter(s), FieldDescriptor)

MethodDescriptor(parameters, return_) ==
    [parameters |-> parameters, return_ |-> return_]

\* let return_ = if let Some('V') = chars.peek() { .. } else { .. }
MethodReturn(chars, parameters) ==
    IF chars # <<>> /\ Head(chars) = "V"
    THEN Ok(MethodDescriptor(parameters, Unit("Void")), chars)
    ELSE Map(FieldTypeFromCharIter(chars), LAMBDA x :
           MethodDescriptor(parameters, [kind |-> "Some", of |-> x]))

RECURSIVE MethodParameters(_, _), MethodParametersPush(_, _)

\* a loop that puts each parameter in front of the ones before it
MethodParametersPushFront(parameters, r) ==
    IF r.t # "Ok" THEN r ELSE MethodParameters(r.d, <<r.v>> \o parameters)

\* the loop that ends at a peeked ')' and pushes a FieldType otherwise
MethodParameters(chars, parameters) ==
    IF chars # <<>> /\ Head(chars) = ")" THEN MethodReturn(Tail(chars), parameters)
    ELSE MethodParametersPush(parameters, FieldTypeFromCharIter(chars))

\* parameters.push(r?)
MethodParametersPush(parameters, r) ==
    IF r.t # "Ok" THEN r ELSE MethodParameters(r.d, Append(parameters, r.v))

\* <MethodDescriptor as FromStr>::from_str
MethodDescriptorFromStr(s) ==
    IF s = <<>> THEN Err(ParseErr("Empty string"), s)
    ELSE IF Head(s) # "(" THEN Err(ParseErr("Needs to start with '('"), Tail(s))
    ELSE MethodParameters(Tail(s), <<>>)

\* the chars descriptors are made of, and the few that long ones are made of
DescriptorChars ==
    {"B", "C", "D", "F", "I", "J", "S", "Z", "L", ";", "[", "(", ")", "V", "a", "Q"}
FieldChars == {"I", "L", ";", "[", "a", "Q"}
MethodChars == {")", "V", "I", "D", "L", ";", "[", "a"}

MaxDescriptorLen == 5

\* every short string, the field-descriptor strings and the strings that
\* open a parenthesis
DescriptorInputs ==
    SeqsUpTo(DescriptorChars, MaxDescriptorLen - 3)
      \cup SeqsUpTo(FieldChars, MaxDescriptorLen - 1)
      \cup {<<"(">> \o s : s \in SeqsUpTo(MethodChars, MaxDescriptorLen - 1)}

InitDescriptor ==
    /\ overflow_checks = FALSE
    /\ stack = OperandStackNew
    /\ data \in {DataNew(s) : s \in DescriptorInputs}
    /\ pc = "descriptor"
    /\ len = 0
    /\ class = NoClass
    /\ result = Running
    /\ ret = NoRet

\* s.parse::<FieldDescriptor>()
FieldFromStr ==
    /\ pc = "descriptor"
    /\ ret.op = "none"
    /\ ret' = [NoRet EXCEPT !.op = "FieldDescriptor",
                            !.r = FieldDescriptorFromStr(data.data)]
    /\ UNCHANGED <<overflow_checks, stack, data, pc, len, class, result>>

\* s.parse::<MethodDescriptor>()
MethodFromStr ==
    /\ pc = "descriptor"
    /\ ret.op = "none"
    /\ ret' = [NoRet EXCEPT !.op = "MethodDescriptor",
                            !.r = MethodDescriptorFromStr(data.data)]
    /\ UNCHANGED <<overflow_checks, stack, data, pc, len, class, result>>

NextDescriptor ==
    \/ FieldFromStr
    \/ MethodFromStr

SpecDescriptor == InitDescriptor /\ [][NextDescriptor]_vars

---------------------------------------------------------------------------
(* Properties of parse_class_file *)

\* parse_class_file has returned a result of kind t
Returned(t) == pc = "done" /\ result.t = t

\* the attribute and, inside a Code attribute, every attribute nested in it
\* is resolved
RECURSIVE Resolved(_)
Resolved(attr) ==
    /\ attr.inner.kind # "Unknown"
    /\ attr.inner.kind = "Code" =>
         \A i \in DOMAIN attr.inner.attributes : Resolved(attr.inner.attributes[i])

AllResolved(attrs) == \A i \in DOMAIN attrs : Resolved(attrs[i])

\* C1: after parse_class_file returns Ok, no attribute of the class, of a
\* field, of a method, or nested in a Code attribute at any depth, is still
\* Unknown.
NoUnknownAttributeAfterOk ==
    Returned("Ok") =>
        /\ AllResolved(class.attributes)
        /\ \A i \in DOMAIN class.fields : AllResolved(class.fields[i].attributes)
        /\ \A i \in DOMAIN class.methods : AllResolved(class.methods[i].attributes)

\* an Ok parse of a class whose Code attribute nests a Code attribute that
\* nests a resolved Synthetic attribute
NestedCodeResolved ==
    /\ Returned("Ok")
    /\ \E i \in DOMAIN class.attributes :
         /\ class.attributes[i].inner.kind = "Code"
         /\ \E j \in DOMAIN class.attributes[i].inner.attributes :
              /\ class.attributes[i].inner.attributes[j].inner.kind = "Code"
              /\ \E k \in DOMAIN class.attributes[i].inner.attributes[j].inner.attributes :
                   class.attributes[i].inner.attributes[j].inner.attributes[k].inner.kind
                     = "Synthetic"

\* the reference index passes T::validate_cp_info against the parsed pool
Valid(kind, index) ==
    ValidateCpInfo(kind, class.constant_pool, index).t = "Ok"

\* the optional reference index passes Option<T>::validate_cp_info
OptionValid(kind, index) ==
    OptionValidateCpInfo(kind, class.constant_pool, index).t = "Ok"

MemberRefsValid(members) ==
    \A i \in DOMAIN members :
        /\ Valid("Utf8", members[i].name_index)
        /\ Valid("Utf8", members[i].descriptor_index)

\* C2: in a class file returned by a successful parse every stored pool
\* reference typed T points at an existing slot holding a T, or is zero where
\* the reference is optional: this_class, super_class, the interfaces, the
\* name and descriptor of each field and method, the name of each Class entry.
StoredReferencesTypeChecked ==
    Returned("Ok") =>
        /\ Valid("Class", class.this_class)
        /\ OptionValid("Class", class.super_class)
        /\ \A i \in DOMAIN class.interfaces : Valid("Class", class.interfaces[i])
        /\ MemberRefsValid(class.fields)
        /\ MemberRefsValid(class.methods)
        /\ \A i \in DOMAIN class.constant_pool :
             class.constant_pool[i].inner.kind = "Class" =>
                 Valid("Utf8", class.constant_pool[i].inner.index)

\* C3: parse_class_file never ends in a panic, whatever the input.
NeverPanics == result.t # "Panic"

\* the input holds four bytes or more and they are not the magic
HasBadMagic ==
    /\ Len(data.data) >= Len(GoodMagic)
    /\ SubSeq(data.data, 1, Len(GoodMagic)) # GoodMagic

\* C4: an input whose first four bytes are not 0xCAFEBABE gets an error value
\* back, and a successful parse holds magic = 0xCAFEBABE.
BadMagicIsAnErrorValue ==
    /\ (pc = "done" /\ HasBadMagic) => result.t = "Err"
    /\ Returned("Ok") => class.magic = Magic

\* the number of Long and Double entries of pool
WidePool(pool) ==
    Cardinality({i \in DOMAIN pool : pool[i].inner.kind \in {"Long", "Double"}})

\* the pool pass is over and the rest of the class was read
PoolPassDone ==
    pc \in {"resolve_attributes", "resolve_methods", "resolve_fields"}
      \/ Returned("Ok")

\* C5: for a constant_pool_count of N (len = N - 1) the pass covers N - 1
\* logical slots, a Long or Double taking two: an entry is decoded only while
\* a slot is left, and a finished pool with k Long/Double entries holds
\* N - 1 - k entries.
PoolPassCoversLogicalSlots ==
    /\ (pc = "constant_pool" /\ Len(class.constant_pool) < len) =>
           Len(class.constant_pool) + WidePool(class.constant_pool) < len
    /\ PoolPassDone =>
           Len(class.constant_pool) = len - WidePool(class.constant_pool)

\* the prefixes of bytes cut inside the magic, inside constant_pool_count, or
\* inside one of the pool entries es that follow the count
RECURSIVE EntryEnds(_, _)
EntryEnds(es, from) ==
    IF es = <<>> THEN {from}
    ELSE {from} \cup EntryEnds(Tail(es), from + Len(Head(es)))

CountEnd == Len(GoodMagic) + Len(B2(0)) + Len(B2(59)) + Len(B2(1))

CutPoints(es) ==
    (1..(Len(GoodMagic) - 1)) \cup {CountEnd - 1}
      \cup ((CountEnd..ReferencePoolEnd) \ EntryEnds(es, CountEnd))

TruncatedInputs ==
    {SubSeq(file, 1, k) :
        file \in {ReferenceFile, FileBytes(BadMagic, 4, ReferenceEntries, ReferenceBody)},
        k \in CutPoints(ReferenceEntries)}

\* C9: parsing an input truncated inside the magic, inside a count or inside
\* a pool entry returns an error value.
TruncatedInputIsAnError ==
    (pc = "done" /\ data.data \in TruncatedInputs) => result.t = "Err"

---------------------------------------------------------------------------
(* Properties of the cursor *)

\* the width in bytes of the read op
Width(op) == CASE op = "u1" -> 1 [] op = "u2" -> 2 [] op = "u4" -> 4

\* the big-endian unsigned value of the Width(op) bytes after position at
BigEndian(bytes, at, op) ==
    CASE op = "u1" -> bytes[at + 1]
      [] op = "u2" -> bytes[at + 1] * 256 + bytes[at + 2]
      [] op = "u4" -> U4Of(bytes[at + 1] * 256 + bytes[at + 2],
                           bytes[at + 3] * 256 + bytes[at + 4])

\* C10: a successful u1, u2 or u4 returns the big-endian value of the next 1,
\* 2 or 4 bytes at the position it was called at and leaves the position
\* exactly 1, 2 or 4 further.
ReadsAreBigEndianAndAdvance ==
    (ret.op \in {"u1", "u2", "u4"} /\ ret.r.t = "Ok") =>
        /\ ret.at + Width(ret.op) <= Len(data.data)
        /\ ret.r.v = BigEndian(data.data, ret.at, ret.op)
        /\ data.pointer = ret.at + Width(ret.op)

\* a u4 read after an earlier read, of bytes that differ
ConsecutiveU4Read ==
    /\ ret.op = "u4"
    /\ ret.r.t = "Ok"
    /\ ret.at > 0
    /\ ret.r.v.hi # ret.r.v.lo
    /\ ret.r.v.hi \div 256 # ret.r.v.hi % 256

---------------------------------------------------------------------------
(* Properties of pool references *)

\* the slot index names in the pool holds an entry of variant kind
SlotHolds(kind, index) ==
    /\ index >= 1
    /\ index <= Len(class.constant_pool)
    /\ kind = "CpInfoInner" \/ class.constant_pool[index].inner.kind = kind

\* C6: the index right after a Long or Double entry is a ghost slot; resolving
\* a reference to it yields no entry.
GhostSlotIsInvalid ==
    (/\ ret.op = "get"
     /\ ret.index >= 2
     /\ ret.index - 1 <= Len(class.constant_pool)
     /\ class.constant_pool[ret.index - 1].inner.kind \in {"Long", "Double"})
        => ret.r.t # "Ok"

\* C7: resolving a mandatory reference returns an error value when the index
\* is 0, when it exceeds the pool and when the slot holds another variant, and
\* the inner record otherwise.
MandatoryResolveReturnsErrors ==
    ret.op = "get" =>
        IF SlotHolds(ret.kind, ret.index)
        THEN ret.r.t = "Ok"
        ELSE ret.r.t = "Err"

\* C8: resolving an optional reference returns absent for index 0 and, for
\* any other index, ends as the mandatory resolution of that index and tag
\* does, with its value when there is one.
OptionalResolveMatchesMandatory ==
    ret.op = "maybe_get" =>
        IF ret.index = 0
        THEN ret.r.t = "Ok" /\ ret.r.v = <<>>
        ELSE /\ ret.r.t = FromPoolGet(ret.kind, ret.index, class.constant_pool).t
             /\ ret.r.e = FromPoolGet(ret.kind, ret.index, class.constant_pool).e
             /\ ret.r.t = "Ok" =>
                  ret.r.v = <<FromPoolGet(ret.kind, ret.index, class.constant_pool).v>>

\* an optional reference to a slot of its variant resolved to the entry
OptionalResolvedToEntry ==
    /\ ret.op = "maybe_get"
    /\ ret.index # 0
    /\ ret.kind = "Class"
    /\ ret.r.t = "Ok"
    /\ ret.r.v = <<class.constant_pool[ret.index].inner>>

---------------------------------------------------------------------------
(* Properties of the last_ reads *)

\* the read that last_u1, last_u2, last_u4 look back at
ReadOf(op) ==
    CASE op = "last_u1" -> "u1" [] op = "last_u2" -> "u2" [] op = "last_u4" -> "u4"
      [] OTHER -> ""

\* C11: a last_u1, last_u2 or last_u4 made right after a successful u1, u2 or
\* u4 returns the value that read returned and leaves the cursor as it was.
LastReadRepeatsTheRead ==
    [][(ret.r.t = "Ok" /\ ret.op \in {"u1", "u2", "u4"} /\ ReadOf(ret'.op) = ret.op)
         => (ret'.r.t = "Ok" /\ ret'.r.v = ret.r.v /\ data' = data)]_vars

\* last_u4 returned right after a u4 that read four bytes, not all the same
LastU4AfterU4 ==
    /\ ret.op = "last_u4"
    /\ ret.kind = "u4"
    /\ ret.r.t = "Ok"
    /\ ret.r.v.hi # ret.r.v.lo
    /\ ret.r.v.hi \div 256 # ret.r.v.hi % 256

\* C12: last_u1, last_u2 or last_u4 on a cursor that has consumed fewer than
\* 1, 2 or 4 bytes returns an error value.
LastReadOfTooFewIsAnError ==
    (ReadOf(ret.op) # "" /\ ret.at < Width(ReadOf(ret.op))) => ret.r.t = "Err"

---------------------------------------------------------------------------
(* Properties of the constant-pool entries *)

\* the tags of the constant-pool table of the class-file format
KnownTags == {1, 3, 4, 5, 6, 7, 8, 9, 10, 11, 12, 15, 16, 17, 18, 19, 20}

\* the pool pass is about to decode an entry and its tag byte is there
AtTag ==
    /\ pc = "constant_pool"
    /\ Len(class.constant_pool) < len
    /\ data.pointer < Len(data.data)

\* the tag byte of the entry the pool pass is about to decode
NextTag == data.data[data.pointer + 1]

\* C13: when the pool pass meets an entry whose tag is not a tag of the
\* format, the parse returns the unknown-tag error that carries the tag, and
\* the pool gets no entry for it.
UnknownTagIsAnError ==
    [][(AtTag /\ NextTag \notin KnownTags) =>
          /\ pc' = "done"
          /\ result'.t = "Err"
          /\ result'.e = ParseErrWith("Invalid CPInfo tag", NextTag)
          /\ class'.constant_pool = class.constant_pool]_vars

\* the parse failed on tag 99 met after an entry that was decoded
Tag99Rejected ==
    /\ Returned("Err")
    /\ result.e = ParseErrWith("Invalid CPInfo tag", 99)
    /\ Len(class.constant_pool) >= 1

\* C15: an entry with tag 17 (Dynamic), 19 (Module) or 20 (Package) is not
\* rejected as an unknown tag.
LaterTagsAreNotRejected ==
    ~(/\ Returned("Err")
      /\ result.e.msg = "Invalid CPInfo tag"
      /\ result.e.arg \in {17, 19, 20})

\* the bytes decoded start with the tag and the kind byte of a MethodHandle
MethodHandleRead ==
    /\ ret.op = "CpInfo"
    /\ Len(data.data) >= 2
    /\ data.data[1] = 15

\* the variant a MethodHandle of that kind refers to
TargetOfKind(kind) ==
    CASE kind \in 1..4 -> "Fieldref"
      [] kind \in 5..8 -> "MethodRef"
      [] kind = 9 -> "InterfaceMethodref"

---------------------------------------------------------------------------
(* Properties of the attribute-resolve phase *)

\* the name of the attribute: <<bytes>> when its name index is the slot of a
\* Utf8 entry of the parsed pool, <<>> when it is not
NameOf(attr) ==
    IF /\ attr.attribute_name_index \in 1..Len(class.constant_pool)
       /\ class.constant_pool[attr.attribute_name_index].inner.kind = "Utf8"
    THEN <<class.constant_pool[attr.attribute_name_index].inner.bytes>>
    ELSE <<>>

\* the attribute has a name and the resolve phase has no arm for it
HasUnknownName(attr) ==
    NameOf(attr) # <<>> /\ AttributeLayout(NameOf(attr)[1]).kind = ""

\* neither the attribute nor an attribute nested in it has an unknown name
RECURSIVE NamesKnown(_)
NamesKnown(attr) ==
    /\ ~HasUnknownName(attr)
    /\ attr.inner.kind = "Code" =>
         \A i \in DOMAIN attr.inner.attributes : NamesKnown(attr.inner.attributes[i])

AllNamesKnown(attrs) == \A i \in DOMAIN attrs : NamesKnown(attrs[i])

\* the error of an attribute name the resolve phase has no arm for
InvalidAttributeName(name) == ParseErrWith("Invalid Attribute name", name)

NestedMyCustomRejected ==
    /\ Returned("Err")
    /\ class.attributes # <<>>
    /\ NameOf(class.attributes[1]) = <<CodeName>>
    /\ result.e = InvalidAttributeName(CustomName)

\* the attribute is unresolved and its name index is not the slot of a Utf8
\* entry: it is 0, it is beyond the pool, or the slot holds another variant
HasNoName(attr) == attr.inner.kind = "Unknown" /\ NameOf(attr) = <<>>

\* C17: when the name reference of the attribute the resolve phase takes
\* first is 0, is beyond the pool or names a slot that is not a Utf8, the
\* parse ends with an error value.
UnresolvableNameIsAnError ==
    (pc = "done" /\ class.attributes # <<>> /\ HasNoName(class.attributes[1]))
        => result.t = "Err"

---------------------------------------------------------------------------
(* Properties of the descriptors *)

\* the letters of the eight primitive types
PrimitiveLetters == {"B", "C", "D", "F", "I", "J", "S", "Z"}

\* the primitive type each letter stands for
TypeOfLetter(c) ==
    CASE c = "B" -> Unit("Byte") [] c = "C" -> Unit("Char")
      [] c = "D" -> Unit("Double") [] c = "F" -> Unit("Float")
      [] c = "I" -> Unit("Int") [] c = "J" -> Unit("Long")
      [] c = "S" -> Unit("Short") [] c = "Z" -> Unit("Boolean")

\* the number of '[' the string starts with, and what follows them
Brackets(s) ==
    CHOOSE k \in 0..Len(s) :
        /\ \A i \in 1..k : s[i] = "["
        /\ k = Len(s) \/ s[k + 1] # "["

Element(s) == SubSeq(s, Brackets(s) + 1, Len(s))

\* e is one primitive letter; e is L, a name without ';', and ';'
IsPrimitive(e) == Len(e) = 1 /\ e[1] \in PrimitiveLetters

IsObject(e) ==
    /\ Len(e) >= 2
    /\ e[1] = "L"
    /\ e[Len(e)] = ";"
    /\ \A i \in 2..(Len(e) - 1) : e[i] # ";"

ElementType(e) ==
    IF IsPrimitive(e) THEN TypeOfLetter(e[1]) ELSE Object(SubSeq(e, 2, Len(e) - 1))

\* the type under k levels of Array
RECURSIVE Nested(_, _)
Nested(k, type) == IF k = 0 THEN type ELSE Array(Nested(k - 1, type))

\* C18: FieldDescriptor::from_str returns, for a string of the grammar (a
\* primitive letter, or L name ; with any name, the empty one too, behind any
\* number of '['), the type it denotes; and returns an error for the empty
\* string, for '['s with nothing after them, for a first character that
\* starts no type, and for an L name that no ';' ends.
FieldDescriptorParsed ==
    ret.op = "FieldDescriptor" =>
        /\ (IsPrimitive(Element(data.data)) \/ IsObject(Element(data.data))) =>
             /\ ret.r.t = "Ok"
             /\ ret.r.v = <<Nested(Brackets(data.data),
                                    ElementType(Element(data.data)))>>
        /\ Element(data.data) = <<>> => ret.r.t = "Err"
        /\ (/\ Element(data.data) # <<>>
            /\ Element(data.data)[1] \notin PrimitiveLetters \cup {"L"})
             => ret.r.t = "Err"
        /\ (/\ Element(data.data) # <<>>
            /\ Element(data.data)[1] = "L"
            /\ \A i \in DOMAIN Element(data.data) : Element(data.data)[i] # ";")
             => ret.r.t = "Err"

\* "[La;" was parsed to an array of the object type a
ArrayOfObjectParsed ==
    /\ ret.op = "FieldDescriptor"
    /\ data.data = <<"[", "L", "a", ";">>
    /\ ret.r.t = "Ok"
    /\ ret.r.v = <<Array(Object(<<"a">>))>>

\* the string a field type is written as
RECURSIVE Written(_)
Written(type) ==
    CASE type.kind = "Array" -> <<"[">> \o Written(type.of)
      [] type.kind = "Object" -> <<"L">> \o type.name \o <<";">>
      [] OTHER -> <<CHOOSE c \in PrimitiveLetters : TypeOfLetter(c) = type>>

RECURSIVE WrittenAll(_)
WrittenAll(types) ==
    IF types = <<>> THEN <<>> ELSE Written(Head(types)) \o WrittenAll(Tail(types))

\* parameter lists and return types the strings of the model can spell
SomeTypes ==
    {Unit("Int"), Unit("Double"), Object(<<>>), Object(<<"a">>), Array(Unit("Int"))}

SomeParameters == SeqsUpTo(SomeTypes, 2)

SomeReturns == {Unit("Void")} \cup {[kind |-> "Some", of |-> t] : t \in SomeTypes}

WrittenReturn(return_) ==
    IF return_.kind = "Void" THEN <<"V">> ELSE Written(return_.of)

\* s starts with the sequence of chars prefix
StartsWith(s, prefix) ==
    Len(s) >= Len(prefix) /\ SubSeq(s, 1, Len(prefix)) = prefix

\* C19: MethodDescriptor::from_str returns, for '(' parameters ')' return,
\* the parameters in the order written and the return type, Void for V; and
\* returns an error for the empty string, for a string that does not start
\* with '(', for one that ends at the ')', for a V or another character that
\* starts no type where a parameter is due, and for one with no ')'.
MethodDescriptorParsed ==
    ret.op = "MethodDescriptor" =>
        /\ \A ps \in SomeParameters, r \in SomeReturns :
             data.data = <<"(">> \o WrittenAll(ps) \o <<")">> \o WrittenReturn(r) =>
                 /\ ret.r.t = "Ok"
                 /\ ret.r.v = MethodDescriptor(ps, r)
        /\ data.data = <<>> => ret.r.t = "Err"
        /\ (data.data # <<>> /\ data.data[1] # "(") => ret.r.t = "Err"
        /\ \A ps \in SomeParameters :
             /\ data.data = <<"(">> \o WrittenAll(ps) \o <<")">> => ret.r.t = "Err"
             /\ (\E c \in DescriptorChars \ (PrimitiveLetters \cup {"L", "[", ")"}) :
                    StartsWith(data.data, <<"(">> \o WrittenAll(ps) \o <<c>>))
                  => ret.r.t = "Err"
        /\ (\A i \in DOMAIN data.data : data.data[i] # ")") => ret.r.t = "Err"

\* "(ID)V" was parsed to the parameters Int, Double and the return type Void
TwoParametersParsed ==
    /\ ret.op = "MethodDescriptor"
    /\ data.data = <<"(", "I", "D", ")", "V">>
    /\ ret.r.t = "Ok"
    /\ ret.r.v.parameters = <<Unit("Int"), Unit("Double")>>
    /\ ret.r.v.return_ = Unit("Void")

\* a depth of recursion taken as the fixed limit
RecursionLimit == 4

\* C20: the depth of recursion that parsing a field descriptor reaches stays
\* within a fixed limit, however long the input is.
RecursionDepthBounded ==
    ret.op = "FieldDescriptor" => FromCharIterDepth(data.data) <= RecursionLimit

---------------------------------------------------------------------------
(* Properties of the order of the attribute-resolve phase *)

\* the constant_pool_count of the input
ReadCount == data.data[9] * 256 + data.data[10]

\* the class body as ParseClassBody read it, every attribute still Unknown
ParsedBody ==
    ClassBodyParse(ParseVec("CpInfo", len, [data EXCEPT !.pointer = 10]).d)

\* parse_class_file has returned and resolve_attributes was called in it
ResolvePhaseRan ==
    /\ pc = "done"
    /\ Len(data.data) >= 10
    /\ SubSeq(data.data, 1, Len(GoodMagic)) = GoodMagic
    /\ CountMinusOne(ReadCount).t = "Ok"
    /\ ParseVec("CpInfo", len, [data EXCEPT !.pointer = 10]).t = "Ok"
    /\ ParsedBody.t = "Ok"

\* the class as resolve_attributes got it
Unresolved ==
    [class EXCEPT !.attributes = ParsedBody.v.attributes,
                  !.methods = ParsedBody.v.methods,
                  !.fields = ParsedBody.v.fields]

\* the places of the attributes in the containers of c: the container, the
\* member (0 for the class itself) and the place in its attribute list
Sites(c) ==
    {<<"attributes", 0, i>> : i \in DOMAIN c.attributes}
      \cup UNION {{<<"methods", m, i>> : i \in DOMAIN c.methods[m].attributes} :
                    m \in DOMAIN c.methods}
      \cup UNION {{<<"fields", f, i>> : i \in DOMAIN c.fields[f].attributes} :
                    f \in DOMAIN c.fields}

AttributeAt(c, site) ==
    CASE site[1] = "attributes" -> c.attributes[site[3]]
      [] site[1] = "methods" -> c.methods[site[2]].attributes[site[3]]
      [] site[1] = "fields" -> c.fields[site[2]].attributes[site[3]]

\* what resolving the attribute at the site, on its own, gives
ResolvedAt(c, site) == ResolveAttribute(AttributeAt(c, site), c.constant_pool)

\* the orders the sites of c can be visited in
Visits(c) ==
    {v \in [1..Cardinality(Sites(c)) -> Sites(c)] :
        \A i, j \in DOMAIN v : i # j => v[i] # v[j]}

\* the order resolve_attributes visits them in: the class, the methods, the
\* fields, each list from its first attribute to its last
Rank(site) ==
    CASE site[1] = "attributes" -> 1 [] site[1] = "methods" -> 2
      [] site[1] = "fields" -> 3

Before(s, t) ==
    \/ Rank(s) < Rank(t)
    \/ Rank(s) = Rank(t) /\ s[2] < t[2]
    \/ Rank(s) = Rank(t) /\ s[2] = t[2] /\ s[3] < t[3]

ParsedOrder(c) ==
    CHOOSE v \in Visits(c) : \A i, j \in DOMAIN v : i < j => Before(v[i], v[j])

\* the outcome of a walk in the order v that stops at the first failure: how
\* it ends and with which error
Outcome(r) == <<r.t, r.e>>

WalkOutcome(c, v) ==
    IF \A i \in DOMAIN v : ResolvedAt(c, v[i]).t = "Ok" THEN <<"Ok", NoErr>>
    ELSE Outcome(ResolvedAt(c, v[
           CHOOSE i \in DOMAIN v :
               /\ ResolvedAt(c, v[i]).t # "Ok"
               /\ \A j \in 1..(i - 1) : ResolvedAt(c, v[j]).t = "Ok"]))

\* the attributes of the three containers, each resolved on its own
EachResolved(c, container, member, attrs) ==
    [i \in DOMAIN attrs |-> ResolvedAt(c, <<container, member, i>>).v]

WalkResolves(c) ==
    /\ class.attributes = EachResolved(c, "attributes", 0, c.attributes)
    /\ class.methods =
         [m \in DOMAIN c.methods |->
            [c.methods[m] EXCEPT
               !.attributes = EachResolved(c, "methods", m, c.methods[m].attributes)]]
    /\ class.fields =
         [f \in DOMAIN c.fields |->
            [c.fields[f] EXCEPT
               !.attributes = EachResolved(c, "fields", f, c.fields[f].attributes)]]

\* C21 as stated: the outcome of the resolve phase, the resolved class or the
\* error returned, is the outcome of a walk of the attributes in any order.
ResolveOutcomeIsOrderFree ==
    ResolvePhaseRan =>
        /\ \A v \in Visits(Unresolved) :
             Outcome(result) = WalkOutcome(Unresolved, v)
        /\ result.t = "Ok" => WalkResolves(Unresolved)

\* C21: whether the resolve phase succeeds does not depend on the order the
\* attributes are visited in, nor does the resolved class when it succeeds;
\* when it fails, the failure returned is the one of the first attribute that
\* fails in the parsed order (the class, the methods, the fields).
ResolveSuccessIsOrderFree ==
    ResolvePhaseRan =>
        /\ \A v \in Visits(Unresolved) :
             (result.t = "Ok") <=> (WalkOutcome(Unresolved, v)[1] = "Ok")
        /\ result.t = "Ok" => WalkResolves(Unresolved)
        /\ Outcome(result) = WalkOutcome(Unresolved, ParsedOrder(Unresolved))

\* the resolve phase failed on a class with two attributes that fail with
\* different errors
TwoFailuresResolved ==
    /\ ResolvePhaseRan
    /\ result.t = "Err"
    /\ \E s, t \in Sites(Unresolved) :
         /\ ResolvedAt(Unresolved, s).t = "Err"
         /\ ResolvedAt(Unresolved, t).t = "Err"
         /\ ResolvedAt(Unresolved, s).e # ResolvedAt(Unresolved, t).e

---------------------------------------------------------------------------
(* Properties of one attribute: its frame and the resolution of its body *)

\* the attribute_length the record declares, and the payload it frames
DeclaredLength ==
    U4AsUsize(U4Of(data.data[3] * 256 + data.data[4],
                   data.data[5] * 256 + data.data[6]))

FramedPayload == SubSeq(data.data, 7, 6 + DeclaredLength)

\* the record was parsed and resolve_attribute has returned
ResolveReturned == ret.op = "resolve_attribute"

\* the attribute the record parses to when nothing follows it
ParsedAlone == Parse("AttributeInfo", DataNew(SubSeq(data.data, 1, 6 + DeclaredLength)))

\* C22: a parsed attribute record has taken 6 + attribute_length bytes of the
\* outer cursor and holds the attribute_length bytes after its header;
\* resolving it leaves the outer cursor there and reads the payload only: it
\* ends as it does when nothing follows the record, a successful decoder ends
\* inside the payload, and one that reads past the payload's end gets the
\* no-bytes-left error.
AttributeFramed ==
    /\ (ret.op = "AttributeInfo" /\ ret.r.t = "Ok") =>
         /\ data.pointer = ret.at + 6 + DeclaredLength
         /\ data.pointer <= Len(data.data)
         /\ ret.r.v.attribute_name_index = data.data[1] * 256 + data.data[2]
         /\ ret.r.v.inner = [kind |-> "Unknown", attribute_content |-> FramedPayload]
    /\ ResolveReturned =>
         /\ data.pointer = 6 + DeclaredLength
         /\ ret.r = ResolveAttribute(ParsedAlone.v, class.constant_pool)
         /\ ret.r.t = "Ok" =>
              /\ ret.r.d.data = FramedPayload
              /\ ret.r.d.pointer <= Len(FramedPayload)
         /\ ret.r.d.pointer > Len(ret.r.d.data) =>
              /\ ret.r.t = "Err"
              /\ ret.r.e = ParseErr("No u1 left")
         /\ (/\ class.attributes[1].attribute_name_index = 3
             /\ Len(FramedPayload) < 2) =>
              /\ ret.r.t = "Err"
              /\ ret.r.e = ParseErr("No u1 left")

\* a ConstantValue attribute of one byte, with a record after it, was not
\* resolved: its decoder found no second byte
ShortConstantValueRejected ==
    /\ ResolveReturned
    /\ class.attributes[1].attribute_name_index = 3
    /\ Len(FramedPayload) = 1
    /\ Len(data.data) > data.pointer
    /\ ret.r.t = "Err"
    /\ ret.r.e = ParseErr("No u1 left")

---------------------------------------------------------------------------
(* Properties of the life of an attribute body *)

\* the resolve phase is running
Resolving == pc \in {"resolve_attributes", "resolve_methods", "resolve_fields"}

---------------------------------------------------------------------------
(* Properties of the stack-map frames *)

\* StackMapFrame::parse has returned; the type byte of the frame it was given
FrameParsed == ret.op = "StackMapFrame"

FrameType == data.data[1]

\* the shape the class-file format gives a frame of type t, "" for the types
\* it has no frame for
FrameKind(t) ==
    CASE t \in 0..63 -> "SameFrame"
      [] t \in 64..127 -> "SameLocals1StackItemFrame"
      [] t = 247 -> "SameLocals1StackItemFrameExtended"
      [] t \in 248..250 -> "ChopFrame"
      [] t = 251 -> "SameFrameExtended"
      [] t \in 252..254 -> "AppendFrame"
      [] t = 255 -> "FullFrame"
      [] OTHER -> ""

\* C24: a frame is decoded to the shape of its type, 0-63 same-frame, 64-127
\* same-locals-1-stack-item, 247 its extended form, 248-250 chop, 251
\* same-frame-extended, 252-254 append, 255 full; a type of 128-246 is
\* rejected with the invalid-type error carrying the type; and a
\* verification-type tag outside 0-8 is rejected with the invalid-tag error
\* carrying the tag.
FrameDecodedByType ==
    FrameParsed =>
        /\ ret.r.t = "Ok" =>
             /\ ret.r.v.kind = FrameKind(FrameType)
             /\ ret.r.v.frame_type = FrameType
        /\ FrameKind(FrameType) = "" =>
             /\ ret.r.t = "Err"
             /\ ret.r.e = ParseErrWith("Invalid StackMapFrame type", FrameType)
        /\ (/\ FrameType \in 64..127
            /\ Len(data.data) >= 2
            /\ data.data[2] \notin 0..8) =>
             /\ ret.r.t = "Err"
             /\ ret.r.e = ParseErrWith("Invalid VerificationTypeInfo tag",
                                       data.data[2])

\* the verification types that are a tag and nothing else
PlainTags == {0, 1, 2}

PlainType(tag) ==
    [kind |-> CASE tag = 0 -> "Top" [] tag = 1 -> "Integer" [] tag = 2 -> "Float",
     tag |-> tag]

\* the number of locals an append frame of this type adds
Appended == FrameType - 251

\* C25: an append frame of type t in 252..254 whose offset_delta is followed
\* by t - 251 verification types is decoded to that offset_delta and exactly
\* these t - 251 locals, whatever the offset_delta.
AppendFrameAddsTypeMinus251Locals ==
    (/\ FrameParsed
     /\ FrameType \in 252..254
     /\ Len(data.data) >= 3 + Appended
     /\ \A i \in 1..Appended : data.data[3 + i] \in PlainTags) =>
        /\ ret.r.t = "Ok"
        /\ ret.r.v.kind = "AppendFrame"
        /\ ret.r.v.offset_delta = data.data[2] * 256 + data.data[3]
        /\ ret.r.v.locals = [i \in 1..Appended |-> PlainType(data.data[3 + i])]
        /\ data.pointer = 3 + Appended

---------------------------------------------------------------------------
(* Properties of the Code and SourceDebugExtension bodies *)

\* resolve_attribute has returned for the record named by slot name_index
ResolvedNamed(name_index) ==
    ResolveReturned /\ class.attributes[1].attribute_name_index = name_index

\* the 2-byte big-endian value at offset at of the payload
PayloadU2(at) == FramedPayload[at + 1] * 256 + FramedPayload[at + 2]

\* where the layout of a Code body puts its exception table: after max_stack,
\* max_locals, code_length and the code
CodeLength == U4AsUsize(U4Of(PayloadU2(4), PayloadU2(6)))

TableAt == 8 + CodeLength

TableLength == PayloadU2(TableAt)

\* the k-th 2-byte value of the i-th entry of the table
EntryU2(i, k) == PayloadU2(TableAt + 2 + 8 * (i - 1) + 2 * (k - 1))

\* C26: a resolved Code attribute holds the entries of its exception table,
\* each the four successive 2-byte big-endian values of its 8 bytes, and as
\* many nested attributes as the count after the 8n bytes of the table says.
ExceptionTableDecoded ==
    (ResolvedNamed(1) /\ ret.r.t = "Ok") =>
        /\ Len(FramedPayload) >= TableAt + 2 + 8 * TableLength + 2
        /\ Len(ret.r.v.inner.exception_table) = TableLength
        /\ \A i \in 1..TableLength :
             ret.r.v.inner.exception_table[i] =
                 [start_pc |-> EntryU2(i, 1), end_pc |-> EntryU2(i, 2),
                  handler_pc |-> EntryU2(i, 3), catch_type |-> EntryU2(i, 4)]
        /\ Len(ret.r.v.inner.attributes) = PayloadU2(TableAt + 2 + 8 * TableLength)

\* C27: resolving a SourceDebugExtension attribute succeeds, and its
\* debug_extension is the whole payload, attribute_length bytes.
SourceDebugExtensionKeepsPayload ==
    ResolvedNamed(2) =>
        /\ ret.r.t = "Ok"
        /\ ret.r.v.inner =
             [kind |-> "SourceDebugExtension", debug_extension |-> FramedPayload]
        /\ Len(ret.r.v.inner.debug_extension) = DeclaredLength

---------------------------------------------------------------------------
(* Properties of the end of a descriptor *)

\* C28: FieldDescriptor::from_str and MethodDescriptor::from_str accept a
\* string only when the whole of it is one descriptor: an accepted string is
\* the written form of what it was parsed to, with no character left over.
WholeStringIsOneDescriptor ==
    /\ (ret.op = "FieldDescriptor" /\ ret.r.t = "Ok") =>
         data.data = Written(ret.r.v[1])
    /\ (ret.op = "MethodDescriptor" /\ ret.r.t = "Ok") =>
         data.data = <<"(">> \o WrittenAll(ret.r.v.parameters) \o <<")">>
                       \o WrittenReturn(ret.r.v.return_)

---------------------------------------------------------------------------
(* Properties of the position of the cursor *)

\* C29: after any reads, successful or failed, the position of the cursor is
\* within 0..len(input), and a read that fails leaves it where it was.
PositionStaysInside ==
    /\ data.pointer \in 0..Len(data.data)
    /\ (ret.op \in {"u1", "u2", "u4"} /\ ret.r.t # "Ok") => data.pointer = ret.at

---------------------------------------------------------------------------
(* Properties of the operand stack *)

\* the entry at height h of the stack, 1 the bottom
At(s, h) == s.arr[h]

\* C30: swap on a stack of two values or more exchanges the two topmost and
\* leaves the values below and the height as they are; and pop on a stack
\* that is not empty returns the topmost value and takes the height one
\* down: after push(a), push(b), swap the next two pops return a, then b.
SwapExchangesTheTop ==
    [][/\ (ret'.op = "swap" /\ stack.sp >= 2) =>
            /\ ret'.r.t = "Ok"
            /\ stack'.sp = stack.sp
            /\ At(stack', stack.sp) = At(stack, stack.sp - 1)
            /\ At(stack', stack.sp - 1) = At(stack, stack.sp)
            /\ \A h \in 1..(stack.sp - 2) : At(stack', h) = At(stack, h)
       /\ (ret'.op = "pop" /\ stack.sp >= 1) =>
            /\ ret'.r.t = "Ok"
            /\ ret'.r.v = At(stack, stack.sp)
            /\ stack'.sp = stack.sp - 1
            /\ \A h \in 1..stack'.sp : At(stack', h) = At(stack, h)]_vars

=============================================================================
